---- MODULE Spec2Model ----
(***************************************************************************)
(* Risk-Monitoring: the portfolio ledger (services/portfolio_service.py),  *)
(* the tiered price-series cache with provider fallback                    *)
(* (services/data_service.py) and the live-quote fetch                     *)
(* (services/portfolio_service.py: fetch_live_prices).                     *)
(*                                                                         *)
(* Money, quantities and weights are Python floats in the source; they are *)
(* modelled as exact rationals <<numerator, denominator>> (denominator > 0,*)
(* lowest terms), so every statement below is about the real-number        *)
(* arithmetic the code performs, not about floating-point rounding.        *)
(* An absent optional value (Python None) is the empty tuple.              *)
(***************************************************************************)
EXTENDS Integers, Sequences, FiniteSets, TLC

VARIABLES assets, transactions, lastOp, nops,
          now, memCache, dbCache, dbRows, lastFetch, nfetch,
          quoteCache, lastQuote, nquotes,
          sellers, dbSession, dbReader,
          riskIn, riskOut

ledgerVars == <<assets, transactions, lastOp, nops>>

fetchVars == <<memCache, dbCache, dbRows, lastFetch, nfetch>>

quoteVars == <<quoteCache, lastQuote, nquotes>>

raceVars == <<sellers>>

sessionVars == <<dbSession, dbReader>>

riskVars == <<riskIn, riskOut>>

vars == <<assets, transactions, lastOp, nops,
          now, memCache, dbCache, dbRows, lastFetch, nfetch,
          quoteCache, lastQuote, nquotes,
          sellers, dbSession, dbReader,
          riskIn, riskOut>>

(***************************************************************************)
(* Bounds and input domains                                                *)
(***************************************************************************)
MaxOps == 3

None == <<>>

Symbols == {"A", "B"}

(***************************************************************************)
(* Exact rational arithmetic                                               *)
(***************************************************************************)
Abs(n) == IF n < 0 THEN -n ELSE n

RECURSIVE Gcd(_, _)
Gcd(a, b) == IF b = 0 THEN a ELSE Gcd(b, a % b)

Norm(n, d) ==
    LET s == IF d < 0 THEN -1 ELSE 1
        g == Gcd(Abs(n), Abs(d))
    IN  IF n = 0 THEN <<0, 1>> ELSE <<(s * n) \div g, (s * d) \div g>>

R(n) == <<n, 1>>

RAdd(x, y) == Norm(x[1] * y[2] + y[1] * x[2], x[2] * y[2])
RSub(x, y) == Norm(x[1] * y[2] - y[1] * x[2], x[2] * y[2])
RMul(x, y) == Norm(x[1] * y[1], x[2] * y[2])
RDiv(x, y) == Norm(x[1] * y[2], x[2] * y[1])
RLt(x, y) == x[1] * y[2] < y[1] * x[2]
RLe(x, y) == x[1] * y[2] <= y[1] * x[2]
RZero == <<0, 1>>

\* Python truthiness of an optional float: None and 0.0 are falsy
Truthy(x) == x # None /\ x # RZero

AddPrices == {None, R(0), R(50)}
AddQuantities == {None, R(0), R(10)}
AddAllocations == {None, R(0), R(400), R(600)}
SellQuantities == {R(4), R(6), R(10)}
SellPrices == {R(40), R(60)}
TargetAmounts == {R(0), R(800)}

\* remaining_quantity <= 0.0001 counts as sold out
Epsilon == <<1, 10000>>

(***************************************************************************)
(* Weights                                                                 *)
(***************************************************************************)
RECURSIVE SumAllocation(_, _)
SumAllocation(as, S) ==
    IF S = {} THEN RZero
    ELSE LET s == CHOOSE x \in S : TRUE
         IN  RAdd(as[s].allocation, SumAllocation(as, S \ {s}))

TotalAllocation(as) == SumAllocation(as, DOMAIN as)

RECURSIVE SumWeight(_, _)
SumWeight(as, S) ==
    IF S = {} THEN RZero
    ELSE LET s == CHOOSE x \in S : TRUE
         IN  RAdd(as[s].weight, SumWeight(as, S \ {s}))

\* calculate_portfolio_weights: the symbol -> weight map, empty when there
\* are no assets or the allocations sum to zero
NoWeights == [s \in {} |-> RZero]

calculate_portfolio_weights(as) ==
    IF DOMAIN as = {} THEN NoWeights
    ELSE IF TotalAllocation(as) = RZero THEN NoWeights
    ELSE [s \in DOMAIN as |-> RDiv(as[s].allocation, TotalAllocation(as))]

\* update_portfolio_weights: only the symbols present in the map are rewritten
update_portfolio_weights(as) ==
    LET weights == calculate_portfolio_weights(as)
    IN  [s \in DOMAIN as |->
            IF s \in DOMAIN weights
            THEN [as[s] EXCEPT !.weight = weights[s]]
            ELSE as[s]]

(***************************************************************************)
(* Ledger records                                                          *)
(***************************************************************************)
NewAsset(allocation, purchase_price, quantity) ==
    [weight |-> RZero, allocation |-> allocation,
     purchase_price |-> purchase_price, quantity |-> quantity,
     realized_pnl |-> RZero]

\* a BUY row written with a realized_pnl of 0.0 instead of NULL
BuyTransaction_WithPnl(symbol, purchase_price, quantity) ==
    [symbol |-> symbol, transaction_type |-> "BUY", quantity |-> quantity,
     price |-> purchase_price, total_amount |-> RMul(purchase_price, quantity),
     realized_pnl |-> RZero]

BuyTransaction(symbol, purchase_price, quantity) ==
    [symbol |-> symbol, transaction_type |-> "BUY", quantity |-> quantity,
     price |-> purchase_price, total_amount |-> RMul(purchase_price, quantity),
     realized_pnl |-> None]

SellTransaction(symbol, quantity_to_sell, sell_price, realized_pnl) ==
    [symbol |-> symbol, transaction_type |-> "SELL",
     quantity |-> quantity_to_sell, price |-> sell_price,
     total_amount |-> RMul(sell_price, quantity_to_sell),
     realized_pnl |-> realized_pnl]

\* the target_allocations of a call that is not a rebalance
NoTargets == [s \in {} |-> RZero]

OpRecord(op, symbol, quantity, price, success, realized_pnl) ==
    [op |-> op, symbol |-> symbol, quantity |-> quantity, price |-> price,
     success |-> success, realized_pnl |-> realized_pnl, targets |-> NoTargets,
     fate |-> "complete"]

Without(as, symbol) == [s \in (DOMAIN as) \ {symbol} |-> as[s]]

(***************************************************************************)
(* add_asset_to_portfolio                                                  *)
(***************************************************************************)
\* allocation after lines 82-91: price * quantity is authoritative
EffectiveAllocation(allocation, purchase_price, quantity) ==
    IF purchase_price # None /\ quantity # None
    THEN RMul(purchase_price, quantity)
    ELSE allocation

\* lines 93-122: the existing position updated in place, or a new one with
\* weight 0
Upserted(as, symbol, alloc, purchase_price, quantity) ==
    IF symbol \in DOMAIN as
    THEN [as EXCEPT ![symbol] =
            [@ EXCEPT !.allocation = alloc,
                      !.purchase_price =
                          IF purchase_price # None THEN purchase_price ELSE @,
                      !.quantity =
                          IF quantity # None THEN quantity ELSE @]]
    ELSE as @@ (symbol :> NewAsset(alloc, purchase_price, quantity))

AddAsset(symbol, allocation, purchase_price, quantity) ==
    LET alloc == EffectiveAllocation(allocation, purchase_price, quantity)
        upserted == Upserted(assets, symbol, alloc, purchase_price, quantity)
    IN  /\ nops < MaxOps
        /\ nops' = nops + 1
        /\ UNCHANGED <<now, fetchVars, quoteVars, raceVars, sessionVars, riskVars>>
        /\ IF alloc = None
           THEN \* allocation is NOT NULL: the first commit raises, rollback
                /\ UNCHANGED <<assets, transactions>>
                /\ lastOp' = OpRecord("add", symbol, quantity, purchase_price, FALSE, None)
           ELSE /\ assets' = update_portfolio_weights(upserted)
                /\ transactions' =
                     IF Truthy(purchase_price) /\ Truthy(quantity)
                     THEN Append(transactions,
                                 BuyTransaction(symbol, purchase_price, quantity))
                     ELSE transactions
                /\ lastOp' = OpRecord("add", symbol, quantity, purchase_price, TRUE, None)

(***************************************************************************)
(* sell_asset                                                              *)
(***************************************************************************)
\* sell_asset without the oversell check of line 183
SellRejected_NoOversellCheck(as, symbol, quantity_to_sell) ==
    \/ symbol \notin DOMAIN as
    \/ ~Truthy(as[symbol].quantity)
    \/ RLe(as[symbol].quantity, RZero)

\* the three early returns of lines 169-188
SellRejected(as, symbol, quantity_to_sell) ==
    \/ symbol \notin DOMAIN as
    \/ ~Truthy(as[symbol].quantity)
    \/ RLe(as[symbol].quantity, RZero)
    \/ RLt(as[symbol].quantity, quantity_to_sell)

CostBasis(asset) ==
    IF Truthy(asset.purchase_price)
    THEN asset.purchase_price
    ELSE RDiv(asset.allocation, asset.quantity)

RealizedPnl(asset, quantity_to_sell, sell_price) ==
    RSub(RMul(sell_price, quantity_to_sell),
         RMul(CostBasis(asset), quantity_to_sell))

\* a sale that always keeps the position, with a quantity of 0 when all of it
\* is sold
AfterSale_KeepsEmptyPosition(as, symbol, quantity_to_sell, sell_price) ==
    LET asset == as[symbol]
        remaining_quantity == RSub(asset.quantity, quantity_to_sell)
    IN  [as EXCEPT ![symbol] =
            [@ EXCEPT !.quantity = remaining_quantity,
                      !.allocation = RMul(CostBasis(asset), remaining_quantity),
                      !.realized_pnl =
                          RAdd(asset.realized_pnl,
                               RealizedPnl(asset, quantity_to_sell, sell_price))]]

\* lines 198-207: the position after the sale, or its removal
AfterSale(as, symbol, quantity_to_sell, sell_price) ==
    LET asset == as[symbol]
        remaining_quantity == RSub(asset.quantity, quantity_to_sell)
    IN  IF RLe(remaining_quantity, Epsilon)
        THEN Without(as, symbol)
        ELSE [as EXCEPT ![symbol] =
                [@ EXCEPT !.quantity = remaining_quantity,
                          !.allocation = RMul(CostBasis(asset), remaining_quantity),
                          !.realized_pnl =
                              RAdd(asset.realized_pnl,
                                   RealizedPnl(asset, quantity_to_sell, sell_price))]]

SellAsset(symbol, quantity_to_sell, sell_price) ==
    /\ nops < MaxOps
    /\ nops' = nops + 1
    /\ UNCHANGED <<now, fetchVars, quoteVars, raceVars, sessionVars, riskVars>>
    /\ IF SellRejected(assets, symbol, quantity_to_sell)
       THEN /\ UNCHANGED <<assets, transactions>>
            /\ lastOp' = OpRecord("sell", symbol, quantity_to_sell, sell_price,
                                  FALSE, RZero)
       ELSE LET pnl == RealizedPnl(assets[symbol], quantity_to_sell, sell_price)
            IN  /\ assets' = update_portfolio_weights(
                                AfterSale(assets, symbol, quantity_to_sell, sell_price))
                /\ transactions' =
                     Append(transactions,
                            SellTransaction(symbol, quantity_to_sell, sell_price, pnl))
                /\ lastOp' = OpRecord("sell", symbol, quantity_to_sell, sell_price,
                                      TRUE, pnl)

(***************************************************************************)
(* remove_asset_from_portfolio                                             *)
(***************************************************************************)
RemoveAsset(symbol) ==
    /\ nops < MaxOps
    /\ nops' = nops + 1
    /\ UNCHANGED <<now, fetchVars, quoteVars, raceVars, sessionVars, riskVars>>
    /\ UNCHANGED transactions
    /\ IF symbol \in DOMAIN assets
       THEN /\ assets' = update_portfolio_weights(Without(assets, symbol))
            /\ lastOp' = OpRecord("remove", symbol, None, None, TRUE, None)
       ELSE /\ UNCHANGED assets
            /\ lastOp' = OpRecord("remove", symbol, None, None, FALSE, None)

(***************************************************************************)
(* rebalance_portfolio                                                     *)
(***************************************************************************)
\* a rebalance that gives every position it does not name an allocation of 0
Retargeted_ZeroesUnnamed(as, target_allocations) ==
    [s \in DOMAIN as |->
        IF s \in DOMAIN target_allocations
        THEN [as[s] EXCEPT !.allocation = target_allocations[s]]
        ELSE [as[s] EXCEPT !.allocation = RZero]]

\* lines 374-381: only the symbols of the map that are held are touched
Retargeted(as, target_allocations) ==
    [s \in DOMAIN as |->
        IF s \in DOMAIN target_allocations
        THEN [as[s] EXCEPT !.allocation = target_allocations[s]]
        ELSE as[s]]

Rebalance(target_allocations) ==
    /\ nops < MaxOps
    /\ nops' = nops + 1
    /\ UNCHANGED <<now, fetchVars, quoteVars, raceVars, sessionVars, riskVars>>
    /\ UNCHANGED transactions
    /\ assets' = update_portfolio_weights(Retargeted(assets, target_allocations))
    /\ lastOp' = [OpRecord("rebalance", "", None, None, TRUE, None)
                     EXCEPT !.targets = target_allocations]

TargetMaps == UNION {[S -> TargetAmounts] : S \in (SUBSET Symbols) \ {{}}}

(***************************************************************************)
(* Reports: get_realized_pnl_summary and get_portfolio_data                *)
(***************************************************************************)
\* the loop of lines 303-319 over the SELL rows txs[1..i]: a row whose
\* realized_pnl is falsy (NULL or 0.0) is skipped
RECURSIVE RealizedLoop(_, _)
RealizedLoop(txs, i) ==
    IF i = 0 THEN RZero
    ELSE IF txs[i].transaction_type = "SELL" /\ Truthy(txs[i].realized_pnl)
         THEN RAdd(RealizedLoop(txs, i - 1), txs[i].realized_pnl)
         ELSE RealizedLoop(txs, i - 1)

\* total_realized_pnl of the summary
get_realized_pnl_summary(txs) == RealizedLoop(txs, Len(txs))

\* what fetch_live_prices can hold for one symbol: no quote, or a price
LiveQuotes == {None, R(60)}

LivePriceMaps(as) == [DOMAIN as -> LiveQuotes]

\* lines 553-560: the cost of one position
PositionCost(asset) ==
    IF Truthy(asset.purchase_price) /\ Truthy(asset.quantity)
    THEN RMul(asset.purchase_price, asset.quantity)
    ELSE IF Truthy(asset.allocation) THEN asset.allocation ELSE RZero

\* lines 579-601: the current value of one position
PositionValue(asset, live_price) ==
    IF Truthy(asset.purchase_price) /\ Truthy(asset.quantity)
    THEN IF live_price # None
         THEN RMul(live_price, asset.quantity)
         ELSE RMul(asset.purchase_price, asset.quantity)
    ELSE IF Truthy(asset.allocation) THEN asset.allocation ELSE RZero

RECURSIVE SumCost(_, _)
SumCost(as, S) ==
    IF S = {} THEN RZero
    ELSE LET s == CHOOSE x \in S : TRUE
         IN  RAdd(PositionCost(as[s]), SumCost(as, S \ {s}))

RECURSIVE SumValue(_, _, _)
SumValue(as, live_prices, S) ==
    IF S = {} THEN RZero
    ELSE LET s == CHOOSE x \in S : TRUE
         IN  RAdd(PositionValue(as[s], live_prices[s]),
                  SumValue(as, live_prices, S \ {s}))

RECURSIVE SumPositionRealized(_, _)
SumPositionRealized(as, S) ==
    IF S = {} THEN RZero
    ELSE LET s == CHOOSE x \in S : TRUE
         IN  RAdd(as[s].realized_pnl, SumPositionRealized(as, S \ {s}))

\* a total_pnl that also counts the realized P&L kept on the positions
get_portfolio_data_PlusRealized(as, live_prices) ==
    LET total_cost == SumCost(as, DOMAIN as)
        total_current_value == SumValue(as, live_prices, DOMAIN as)
    IN  [total_current_value |-> total_current_value,
         total_cost |-> total_cost,
         total_pnl |-> RAdd(RSub(total_current_value, total_cost),
                            SumPositionRealized(as, DOMAIN as))]

\* (total_current_value, total_cost, total_pnl) for the prices fetched
get_portfolio_data(as, live_prices) ==
    LET total_cost == SumCost(as, DOMAIN as)
        total_current_value == SumValue(as, live_prices, DOMAIN as)
    IN  [total_current_value |-> total_current_value,
         total_cost |-> total_cost,
         total_pnl |-> RSub(total_current_value, total_cost)]

(***************************************************************************)
(* The ledger handlers commit by commit.  Each handler persists its work   *)
(* in several db.session.commit() calls, the last of them inside           *)
(* update_portfolio_weights.  A run completes, or the process dies after   *)
(* one of the commits and before the next, or one of the commits raises.   *)
(***************************************************************************)
\* add_asset_to_portfolio commits up to three times (lines 125, 140, 55)
MaxCommits == 3

Fates == {[kind |-> "complete", at |-> 0]}
         \cup {[kind |-> k, at |-> i] : k \in {"crash", "fail"}, i \in 1..MaxCommits}

Persisted(as, txs) == [assets |-> as, transactions |-> txs]

\* the persisted state after each commit of add_asset_to_portfolio
CommitsOfAdd(as, txs, symbol, alloc, purchase_price, quantity) ==
    LET upserted == Upserted(as, symbol, alloc, purchase_price, quantity)
        bought == Append(txs, BuyTransaction(symbol, purchase_price, quantity))
    IN  IF Truthy(purchase_price) /\ Truthy(quantity)
        THEN <<Persisted(upserted, txs),
               Persisted(upserted, bought),
               Persisted(update_portfolio_weights(upserted), bought)>>
        ELSE <<Persisted(upserted, txs),
               Persisted(update_portfolio_weights(upserted), txs)>>

\* sell_asset: the position and the SELL row in one commit (line 223), then
\* the weights
CommitsOfSell(as, txs, symbol, quantity_to_sell, sell_price) ==
    LET sold == AfterSale(as, symbol, quantity_to_sell, sell_price)
        logged == Append(txs, SellTransaction(symbol, quantity_to_sell, sell_price,
                           RealizedPnl(as[symbol], quantity_to_sell, sell_price)))
    IN  <<Persisted(sold, logged),
          Persisted(update_portfolio_weights(sold), logged)>>

\* remove_asset_from_portfolio: the delete (line 256), then the weights
CommitsOfRemove(as, txs, symbol) ==
    <<Persisted(Without(as, symbol), txs),
      Persisted(update_portfolio_weights(Without(as, symbol)), txs)>>

\* rebalance_portfolio: the allocations (line 383), then the weights
CommitsOfRebalance(as, txs, target_allocations) ==
    <<Persisted(Retargeted(as, target_allocations), txs),
      Persisted(update_portfolio_weights(Retargeted(as, target_allocations)), txs)>>

Possible(commits, fate) ==
    \/ fate.kind = "complete"
    \/ fate.kind = "crash" /\ fate.at \in 1..(Len(commits) - 1)
    \/ fate.kind = "fail" /\ fate.at \in 1..Len(commits)

\* What is persisted and what the handler returns.  A commit that raises is
\* rolled back and the handler returns failure, except for the last commit:
\* update_portfolio_weights catches its own error (lines 54-59) and the
\* handler goes on to return success.  A crash returns nothing.
Outcome(before, commits, fate) ==
    CASE fate.kind = "complete" ->
            [state |-> commits[Len(commits)], success |-> TRUE]
      [] fate.kind = "crash" ->
            [state |-> commits[fate.at], success |-> FALSE]
      [] fate.kind = "fail" ->
            [state |-> IF fate.at = 1 THEN before ELSE commits[fate.at - 1],
             success |-> fate.at = Len(commits)]

AddAssetWithFate(symbol, allocation, purchase_price, quantity, fate) ==
    LET alloc == EffectiveAllocation(allocation, purchase_price, quantity)
    IN  /\ nops < MaxOps
        /\ nops' = nops + 1
        /\ UNCHANGED <<now, fetchVars, quoteVars, raceVars, sessionVars, riskVars>>
        /\ IF alloc = None
           THEN \* allocation is NOT NULL: the first commit raises
                /\ fate = [kind |-> "fail", at |-> 1]
                /\ UNCHANGED <<assets, transactions>>
                /\ lastOp' = [OpRecord("add", symbol, quantity, purchase_price,
                                       FALSE, None) EXCEPT !.fate = "fail"]
           ELSE \E commits \in {CommitsOfAdd(assets, transactions, symbol, alloc,
                                              purchase_price, quantity)} :
                  /\ Possible(commits, fate)
                  /\ \E r \in {Outcome(Persisted(assets, transactions), commits, fate)} :
                        /\ assets' = r.state.assets
                        /\ transactions' = r.state.transactions
                        /\ lastOp' = [OpRecord("add", symbol, quantity, purchase_price,
                                               r.success, None)
                                      EXCEPT !.fate = fate.kind]

SellAssetWithFate(symbol, quantity_to_sell, sell_price, fate) ==
    /\ nops < MaxOps
    /\ nops' = nops + 1
    /\ UNCHANGED <<now, fetchVars, quoteVars, raceVars, sessionVars, riskVars>>
    /\ IF SellRejected(assets, symbol, quantity_to_sell)
       THEN /\ fate.kind = "complete"
            /\ UNCHANGED <<assets, transactions>>
            /\ lastOp' = OpRecord("sell", symbol, quantity_to_sell, sell_price,
                                  FALSE, RZero)
       ELSE \E commits \in {CommitsOfSell(assets, transactions, symbol,
                                           quantity_to_sell, sell_price)} :
              /\ Possible(commits, fate)
              /\ \E r \in {Outcome(Persisted(assets, transactions), commits, fate)} :
                    /\ assets' = r.state.assets
                    /\ transactions' = r.state.transactions
                    /\ lastOp' = [OpRecord("sell", symbol, quantity_to_sell, sell_price,
                                           r.success,
                                           IF r.success
                                           THEN RealizedPnl(assets[symbol],
                                                            quantity_to_sell, sell_price)
                                           ELSE RZero)
                                  EXCEPT !.fate = fate.kind]

RemoveAssetWithFate(symbol, fate) ==
    /\ nops < MaxOps
    /\ nops' = nops + 1
    /\ UNCHANGED <<now, fetchVars, quoteVars, raceVars, sessionVars, riskVars>>
    /\ IF symbol \notin DOMAIN assets
       THEN /\ fate.kind = "complete"
            /\ UNCHANGED <<assets, transactions>>
            /\ lastOp' = OpRecord("remove", symbol, None, None, FALSE, None)
       ELSE \E commits \in {CommitsOfRemove(assets, transactions, symbol)} :
              /\ Possible(commits, fate)
              /\ \E r \in {Outcome(Persisted(assets, transactions), commits, fate)} :
                    /\ assets' = r.state.assets
                    /\ transactions' = r.state.transactions
                    /\ lastOp' = [OpRecord("remove", symbol, None, None, r.success, None)
                                  EXCEPT !.fate = fate.kind]

RebalanceWithFate(target_allocations, fate) ==
    /\ nops < MaxOps
    /\ nops' = nops + 1
    /\ UNCHANGED <<now, fetchVars, quoteVars, raceVars, sessionVars, riskVars>>
    /\ \E commits \in {CommitsOfRebalance(assets, transactions, target_allocations)} :
          /\ Possible(commits, fate)
          /\ \E r \in {Outcome(Persisted(assets, transactions), commits, fate)} :
                /\ assets' = r.state.assets
                /\ transactions' = r.state.transactions
                /\ lastOp' = [OpRecord("rebalance", "", None, None, r.success, None)
                              EXCEPT !.targets = target_allocations,
                                     !.fate = fate.kind]

(***************************************************************************)
(* Concurrent sell_asset calls.  Each request thread has its own session:  *)
(* the query of lines 164-167 loads the position into it, and everything   *)
(* that follows works on that loaded copy until the commit of line 223     *)
(* writes the changed columns back.  No lock or version column is used.    *)
(***************************************************************************)
Procs == {1, 2}

RaceSymbol == "A"

\* the position the concurrent sales start from: 10 units bought at 50
RaceHeld == R(10)

RacePrice == R(50)

RaceSellQuantities == {R(4), R(6), R(10)}

RaceSellPrices == {R(60)}

\* what the ORM does when the row it deletes is already gone: it warns and
\* the commit goes through, or the flush raises
StaleDeletes == {"warn", "raise"}

NoRows == [s \in {} |-> NewAsset(RZero, None, None)]

IdleSeller ==
    [pc |-> "idle", symbol |-> "", quantity |-> None, price |-> None,
     loaded |-> NoRows]

\* lines 164-167: PortfolioAsset.query.filter_by(...).first()
SellLoad(p, symbol, quantity_to_sell, sell_price) ==
    /\ sellers[p].pc = "idle"
    /\ nops < MaxOps
    /\ nops' = nops + 1
    /\ sellers' = [sellers EXCEPT ![p] =
                      [pc |-> "loaded", symbol |-> symbol,
                       quantity |-> quantity_to_sell, price |-> sell_price,
                       loaded |-> IF symbol \in DOMAIN assets
                                  THEN (symbol :> assets[symbol])
                                  ELSE NoRows]]
    /\ UNCHANGED <<assets, transactions, lastOp, now, fetchVars, quoteVars, sessionVars, riskVars>>

\* the columns sell_asset assigned on the loaded copy, written to the row
WrittenBack(as, symbol, changed) ==
    [as EXCEPT ![symbol] = [@ EXCEPT !.quantity = changed.quantity,
                                     !.allocation = changed.allocation,
                                     !.realized_pnl = changed.realized_pnl]]

\* lines 169-242 on the loaded copy
SellFinish(p, stale_delete) ==
    LET me == sellers[p]
        symbol == me.symbol
        failure == OpRecord("sell", symbol, me.quantity, me.price, FALSE, RZero)
    IN  /\ me.pc = "loaded"
        /\ sellers' = [sellers EXCEPT ![p] = IdleSeller]
        /\ UNCHANGED <<nops, now, fetchVars, quoteVars, sessionVars, riskVars>>
        /\ IF SellRejected(me.loaded, symbol, me.quantity)
           THEN /\ stale_delete = "warn"
                /\ UNCHANGED <<assets, transactions>>
                /\ lastOp' = failure
           ELSE LET pnl == RealizedPnl(me.loaded[symbol], me.quantity, me.price)
                    after == AfterSale(me.loaded, symbol, me.quantity, me.price)
                    soldOut == symbol \notin DOMAIN after
                    rowGone == symbol \notin DOMAIN assets
                    raises == rowGone /\ (~soldOut \/ stale_delete = "raise")
                IN  /\ (stale_delete = "raise") => (rowGone /\ soldOut)
                    /\ IF raises
                       THEN \* the flush raises: rollback, failure returned
                            /\ UNCHANGED <<assets, transactions>>
                            /\ lastOp' = failure
                       ELSE /\ assets' = update_portfolio_weights(
                                             IF soldOut
                                             THEN Without(assets, symbol)
                                             ELSE WrittenBack(assets, symbol, after[symbol]))
                            /\ transactions' =
                                  Append(transactions,
                                         SellTransaction(symbol, me.quantity, me.price, pnl))
                            /\ lastOp' = OpRecord("sell", symbol, me.quantity, me.price,
                                                  TRUE, pnl)

RaceIdle == sellers = [p \in Procs |-> IdleSeller]

RECURSIVE SoldTotal(_, _)
SoldTotal(txs, i) ==
    IF i = 0 THEN RZero
    ELSE RAdd(IF txs[i].transaction_type = "SELL" THEN txs[i].quantity ELSE RZero,
              SoldTotal(txs, i - 1))

\* the quantity held of a symbol, 0 when there is no position
HeldQuantity(as, symbol) ==
    IF symbol \in DOMAIN as /\ as[symbol].quantity # None
    THEN as[symbol].quantity
    ELSE RZero

(***************************************************************************)
(* Time: datetime.now() in seconds; a timedelta splits into whole days and *)
(* the seconds within the day (timedelta.days, timedelta.seconds)          *)
(***************************************************************************)
SecondsPerDay == 86400

TimedeltaDays(delta) == delta \div SecondsPerDay

TimedeltaSeconds(delta) == delta % SecondsPerDay

MaxDays == 2

DayOffsets == {0, 200}

Instants == {d * SecondsPerDay + o : d \in 0..MaxDays, o \in DayOffsets}

Tick ==
    /\ \E t \in Instants : t > now /\ now' = t
    /\ UNCHANGED <<ledgerVars, fetchVars, quoteVars, raceVars, sessionVars, riskVars>>

(***************************************************************************)
(* Price tables.  A table is identified by the provider that produced it   *)
(* and the time it was fetched; the empty DataFrame and Python None are    *)
(* two more values of the same shape.                                      *)
(***************************************************************************)
DF(src, at) == [src |-> src, at |-> at]

EmptyDF == DF("empty", 0 - 1)

NoneDF == DF("None", 0 - 1)

Tickers == {"A", "B"}

Requests == {<<"A">>, <<"A", "B">>, <<"B", "A">>}

Periods == {"1y", "1mo"}

\* the period the price-series specification requests
FetchPeriods == {"1y"}

MaxFetches == 3

\* outcomes of TimeSeries.get_daily and of yf.download
AvOutcomes == {"ok", "quota", "premium", "transient"}

YfOutcomes == {"ok", "empty", "raise"}

\* DataService.__init__(cache_timeout=300)
cache_timeout == 300

(***************************************************************************)
(* Durable cache: StockAnalysisCache rows keyed (ticker, period) and       *)
(* StockData rows keyed by ticker                                          *)
(***************************************************************************)
CacheEntry(t) == [last_updated |-> t, is_valid |-> TRUE]

get_stock_data_from_db(dbc, dbr, t, ticker, period) ==
    IF <<ticker, period>> \notin DOMAIN dbc \/ ~dbc[<<ticker, period>>].is_valid
    THEN [data |-> NoneDF, outcome |-> "miss"]
    ELSE IF TimedeltaDays(t - dbc[<<ticker, period>>].last_updated) > 1
    THEN [data |-> NoneDF, outcome |-> "stale"]
    ELSE IF ticker \notin DOMAIN dbr
    THEN [data |-> NoneDF, outcome |-> "norows"]
    ELSE [data |-> dbr[ticker], outcome |-> "hit"]

\* save_stock_data_to_db.  An existing (ticker, period) entry has the ticker's
\* rows and itself deleted first.  Inserting rows for a ticker that still has
\* rows (saved under another period, whose dates overlap within the days
\* modelled) violates unique_ticker_date: the except branch rolls back.
save_stock_data_to_db(dbc, dbr, t, ticker, data, period) ==
    LET existing == <<ticker, period>> \in DOMAIN dbc
        rowsLeft == IF existing
                    THEN [k \in (DOMAIN dbr) \ {ticker} |-> dbr[k]]
                    ELSE dbr
    IN  IF data = EmptyDF
        THEN [ok |-> FALSE, dbCache |-> dbc, dbRows |-> dbr]
        ELSE IF ticker \in DOMAIN rowsLeft
        THEN [ok |-> FALSE, dbCache |-> dbc, dbRows |-> dbr]
        ELSE [ok |-> TRUE,
              dbCache |-> [k \in (DOMAIN dbc) \cup {<<ticker, period>>} |->
                              IF k = <<ticker, period>> THEN CacheEntry(t) ELSE dbc[k]],
              dbRows |-> rowsLeft @@ (ticker :> data)]

(***************************************************************************)
(* fetch_stock_data                                                        *)
(***************************************************************************)
\* cache_key = f"{'-'.join(tickers)}_{period}_{interval}": the tickers in the
\* order given
CacheKey(tickers, period, interval) == <<tickers, period, interval>>

Step(source, outcome) == [source |-> source, outcome |-> outcome]

\* Alpha Vantage asked for every request, whatever the number of tickers
TriesPrimary_Always(tickers) == Len(tickers) >= 1

\* only a single-ticker request asks Alpha Vantage (line 191)
TriesPrimary(tickers) == Len(tickers) = 1

\* the exception of yf.download let through to the caller
OuterExcept_Reraise(trace) ==
    [ret |-> NoneDF, raised |-> TRUE, trace |-> trace]

\* the except of lines 273-275
OuterExcept(trace) ==
    [ret |-> EmptyDF, raised |-> FALSE, trace |-> trace]

fetch_stock_data(mem, dbc, dbr, t, tickers, period, av, yf) ==
    LET single == Len(tickers) = 1
        db == IF single
              THEN get_stock_data_from_db(dbc, dbr, t, tickers[1], period)
              ELSE [data |-> NoneDF, outcome |-> "skipped"]
        t1 == IF single THEN <<Step("durable", db.outcome)>> ELSE <<>>
        key == CacheKey(tickers, period, "daily")
        memHit == /\ key \in DOMAIN mem
                  /\ TimedeltaSeconds(t - mem[key].time) < cache_timeout
        t2 == Append(t1, Step("ephemeral", IF memHit THEN "hit" ELSE "miss"))
        t3 == IF TriesPrimary(tickers) THEN Append(t2, Step("primary", av)) ELSE t2
        t4 == Append(t3, Step("secondary", yf))
        unchanged == [memCache |-> mem, dbCache |-> dbc, dbRows |-> dbr]
        stored(data) == [k \in (DOMAIN mem) \cup {key} |->
                            IF k = key THEN [data |-> data, time |-> t] ELSE mem[k]]
        saved(data) == save_stock_data_to_db(dbc, dbr, t, tickers[1], data, period)
    IN  IF db.outcome = "hit"
        THEN [ret |-> db.data, raised |-> FALSE, trace |-> t1] @@ unchanged
        ELSE IF memHit
        THEN [ret |-> mem[key].data, raised |-> FALSE, trace |-> t2] @@ unchanged
        ELSE IF TriesPrimary(tickers) /\ av = "ok"
        THEN [ret |-> DF("av", t), raised |-> FALSE, trace |-> t3,
              memCache |-> stored(DF("av", t)),
              dbCache |-> saved(DF("av", t)).dbCache,
              dbRows |-> saved(DF("av", t)).dbRows]
        ELSE IF yf = "raise"
        THEN OuterExcept(t4) @@ unchanged
        ELSE LET df == IF yf = "ok" THEN DF("yf", t) ELSE EmptyDF
             IN  [ret |-> df, raised |-> FALSE, trace |-> t4,
                  memCache |-> stored(df),
                  dbCache |-> IF single /\ df # EmptyDF
                              THEN saved(df).dbCache ELSE dbc,
                  dbRows |-> IF single /\ df # EmptyDF
                             THEN saved(df).dbRows ELSE dbr]

FetchStockData(tickers, period, av, yf) ==
    /\ nfetch < MaxFetches
    /\ \E r \in {fetch_stock_data(memCache, dbCache, dbRows, now, tickers, period, av, yf)} :
        /\ nfetch' = nfetch + 1
        /\ memCache' = r.memCache
        /\ dbCache' = r.dbCache
        /\ dbRows' = r.dbRows
        /\ lastFetch' = [tickers |-> tickers, period |-> period, ret |-> r.ret,
                         raised |-> r.raised, trace |-> r.trace]
        /\ UNCHANGED <<now, ledgerVars, quoteVars, raceVars, sessionVars, riskVars>>

FetchInit ==
    /\ now = 0
    /\ memCache = [k \in {} |-> [data |-> NoneDF, time |-> 0]]
    /\ dbCache = [k \in {} |-> CacheEntry(0)]
    /\ dbRows = [k \in {} |-> NoneDF]
    /\ lastFetch = [tickers |-> <<>>, period |-> "", ret |-> NoneDF,
                    raised |-> FALSE, trace |-> <<>>]
    /\ nfetch = 0

DoFetch == \E tickers \in Requests, period \in FetchPeriods,
              av \in AvOutcomes, yf \in YfOutcomes :
              FetchStockData(tickers, period, av, yf)

(***************************************************************************)
(* The durable cache under its database session.  dbCache and dbRows are   *)
(* the committed tables.  The writer's session holds the deletes it has    *)
(* executed but not yet committed; its own queries see them applied, the   *)
(* sessions of other request threads see the committed tables only.        *)
(***************************************************************************)
MaxSaves == 3

MaxReads == 2

\* frames handed to save_stock_data_to_db: a provider table, or a frame no
\* row can be built from (empty, or without the OHLCV columns: lines 62-70)
SaveTables(t) == {DF("av", t), DF("yf", t), EmptyDF}

Sessions == {"own", "other"}

SessionCache(dbc, sess) ==
    [k \in (DOMAIN dbc) \ sess.entriesDeleted |-> dbc[k]]

SessionRows(dbr, sess) ==
    [k \in (DOMAIN dbr) \ sess.rowsDeleted |-> dbr[k]]

\* the committed content of one (ticker, period) key
KeyContent(dbc, dbr, ticker, period) ==
    [cache |-> [k \in (DOMAIN dbc) \cap {<<ticker, period>>} |-> dbc[k]],
     rows |-> [k \in (DOMAIN dbr) \cap {ticker} |-> dbr[k]]]

NoFailure ==
    [live |-> FALSE, ticker |-> "", period |-> "",
     content |-> KeyContent(<<>>, <<>>, "", "")]

\* lines 25-29: the deletes, executed inside the open transaction
SaveBegin(ticker, data, period) ==
    LET existing == <<ticker, period>> \in DOMAIN SessionCache(dbCache, dbSession)
    IN  /\ ~dbSession.saving
        /\ dbSession.nsaves < MaxSaves
        /\ ~(dbReader.pc = "entry" /\ dbReader.session = "own")
        /\ dbSession' =
              [dbSession EXCEPT
                 !.saving = TRUE,
                 !.nsaves = @ + 1,
                 !.ticker = ticker,
                 !.period = period,
                 !.data = data,
                 !.before = KeyContent(dbCache, dbRows, ticker, period),
                 !.rowsDeleted = IF existing THEN @ \cup {ticker} ELSE @,
                 !.entriesDeleted = IF existing THEN @ \cup {<<ticker, period>>} ELSE @,
                 !.failed = IF @.ticker = ticker THEN NoFailure ELSE @]
        /\ UNCHANGED <<now, ledgerVars, fetchVars, quoteVars, raceVars, dbReader, riskVars>>

\* lines 31-111: insert and commit, or return False with nothing to insert,
\* or roll back on an error
SaveEnd ==
    LET ticker == dbSession.ticker
        period == dbSession.period
        failure == [live |-> TRUE, ticker |-> ticker, period |-> period,
                    content |-> dbSession.before]
    IN  /\ dbSession.saving
        /\ \E r \in {save_stock_data_to_db(SessionCache(dbCache, dbSession),
                                            SessionRows(dbRows, dbSession),
                                            now, ticker, dbSession.data, period)} :
              IF r.ok
              THEN \* line 101: the commit publishes everything the session holds
                   /\ dbCache' = r.dbCache
                   /\ dbRows' = r.dbRows
                   /\ dbSession' = [dbSession EXCEPT !.saving = FALSE, !.ok = TRUE,
                                                     !.rowsDeleted = {},
                                                     !.entriesDeleted = {}]
              ELSE IF dbSession.data = EmptyDF
              THEN \* lines 104-106: return False, no commit and no rollback
                   /\ UNCHANGED <<dbCache, dbRows>>
                   /\ dbSession' = [dbSession EXCEPT !.saving = FALSE, !.ok = FALSE,
                                                     !.failed = failure]
              ELSE \* lines 108-111: rollback
                   /\ UNCHANGED <<dbCache, dbRows>>
                   /\ dbSession' = [dbSession EXCEPT !.saving = FALSE, !.ok = FALSE,
                                                     !.rowsDeleted = {},
                                                     !.entriesDeleted = {},
                                                     !.failed = failure]
        /\ UNCHANGED <<now, ledgerVars, memCache, lastFetch, nfetch, quoteVars,
                       raceVars, dbReader, riskVars>>

IdleReader ==
    [pc |-> "idle", session |-> "other", ticker |-> "", period |-> "",
     entries |-> SessionCache(<<>>, [entriesDeleted |-> {}]), nreads |-> 0,
     done |-> FALSE, outcome |-> "miss", data |-> NoneDF]

\* lines 117-131: the query for the valid entry and the age test
ReadEntry(session, ticker, period) ==
    LET cache == IF session = "own"
                 THEN SessionCache(dbCache, dbSession) ELSE dbCache
        r == get_stock_data_from_db(cache, (ticker :> NoneDF), now, ticker, period)
    IN  /\ dbReader.pc = "idle"
        /\ dbReader.nreads < MaxReads
        /\ session = "own" => ~dbSession.saving
        /\ dbReader' =
              IF r.outcome \in {"miss", "stale"}
              THEN [dbReader EXCEPT !.session = session, !.ticker = ticker,
                                    !.period = period, !.nreads = @ + 1,
                                    !.done = TRUE, !.outcome = r.outcome,
                                    !.data = NoneDF]
              ELSE [dbReader EXCEPT !.pc = "entry", !.session = session,
                                    !.ticker = ticker, !.period = period,
                                    !.nreads = @ + 1, !.entries = cache,
                                    !.done = FALSE]
        /\ UNCHANGED <<now, ledgerVars, fetchVars, quoteVars, raceVars, dbSession, riskVars>>

\* lines 134-158: the query for the ticker's rows
ReadRows ==
    LET rows == IF dbReader.session = "own"
                THEN SessionRows(dbRows, dbSession) ELSE dbRows
        r == get_stock_data_from_db(dbReader.entries, rows, now,
                                    dbReader.ticker, dbReader.period)
    IN  /\ dbReader.pc = "entry"
        /\ dbReader' = [dbReader EXCEPT !.pc = "idle", !.done = TRUE,
                                        !.outcome = r.outcome, !.data = r.data]
        /\ UNCHANGED <<now, ledgerVars, fetchVars, quoteVars, raceVars, dbSession, riskVars>>

\* single-ticker requests over both periods: the requests that reach the
\* durable cache
SingleRequests == {<<"A">>}

DoFetchSingle == \E tickers \in SingleRequests, period \in Periods,
                    av \in AvOutcomes, yf \in YfOutcomes :
                    FetchStockData(tickers, period, av, yf)

(***************************************************************************)
(* fetch_live_prices                                                       *)
(***************************************************************************)
\* the attributes DataService.__init__ sets on the data_service instance;
\* _data_cache is a module global of data_service.py, not one of them
DataServiceAttrs == {"cache_timeout", "alpha_vantage_api_key"}

HasAttr(name) == name \in DataServiceAttrs

SymbolRank == ("A" :> 1) @@ ("B" :> 2)

\* sorted(symbols)
Sorted(symbols) == SortSeq(symbols, LAMBDA x, y : SymbolRank[x] < SymbolRank[y])

\* cache_key = f"live_prices_{'-'.join(sorted(symbols))}"
LiveKey(symbols) == <<"live_prices", Sorted(symbols)>>

QuoteRequests == {<<"A">>, <<"B", "A">>}

MaxQuotes == 2

\* ts.get_daily: a price, an empty frame, or a raised error (the daily quota
\* message; any other error takes the same except branch)
AvQuoteOutcomes == {"ok", "empty", "quota"}

\* yf.Ticker(symbol).history: 1-minute bars, else 2-day daily bars, else
\* nothing, or an exception
YfQuoteOutcomes == {"minute", "daily", "none", "raise"}

AvPrice == R(100)

YfMinutePrice == R(101)

YfDailyPrice == R(102)

Call(symbol, provider, outcome) ==
    [symbol |-> symbol, provider |-> provider, outcome |-> outcome]

\* an iteration whose yfinance failure is not caught: no entry, the error
\* leaves the loop
FetchOne_AbortOnFailure(symbol, av, yf) ==
    IF av = "ok"
    THEN [set |-> TRUE, price |-> AvPrice, raised |-> FALSE,
          calls |-> <<Call(symbol, "primary", av)>>]
    ELSE [set |-> yf # "raise",
          price |-> CASE yf = "minute" -> YfMinutePrice
                      [] yf = "daily" -> YfDailyPrice
                      [] OTHER -> None,
          raised |-> yf = "raise",
          calls |-> <<Call(symbol, "primary", av), Call(symbol, "secondary", yf)>>]

\* one iteration of the loop of lines 634-686
FetchOne(symbol, av, yf) ==
    IF av = "ok"
    THEN [set |-> TRUE, price |-> AvPrice, raised |-> FALSE,
          calls |-> <<Call(symbol, "primary", av)>>]
    ELSE [set |-> TRUE,
          price |-> CASE yf = "minute" -> YfMinutePrice
                      [] yf = "daily" -> YfDailyPrice
                      [] OTHER -> None,
          raised |-> FALSE,
          calls |-> <<Call(symbol, "primary", av), Call(symbol, "secondary", yf)>>]

RECURSIVE QuoteLoop(_, _, _, _, _, _)
QuoteLoop(symbols, i, av, yf, live_prices, calls) ==
    IF i > Len(symbols)
    THEN [live_prices |-> live_prices, calls |-> calls, raised |-> FALSE]
    ELSE LET one == FetchOne(symbols[i], av[symbols[i]], yf[symbols[i]])
             prices == IF one.set
                       THEN [s \in (DOMAIN live_prices) \cup {symbols[i]} |->
                               IF s = symbols[i] THEN one.price ELSE live_prices[s]]
                       ELSE live_prices
         IN  IF one.raised
             THEN [live_prices |-> prices, calls |-> calls \o one.calls,
                   raised |-> TRUE]
             ELSE QuoteLoop(symbols, i + 1, av, yf, prices, calls \o one.calls)

NoPrices == [s \in {} |-> None]

fetch_live_prices(qc, t, symbols, force_refresh, av, yf) ==
    LET key == LiveKey(symbols)
        useCache == /\ ~force_refresh
                    /\ HasAttr("_data_cache")
                    /\ key \in DOMAIN qc
                    /\ qc[key].data # NoPrices
                    /\ TimedeltaSeconds(t - qc[key].time) < cache_timeout
        loop == QuoteLoop(symbols, 1, av, yf, NoPrices, <<>>)
    IN  IF useCache
        THEN [ret |-> qc[key].data, calls |-> <<>>, raised |-> FALSE,
              cached |-> TRUE, quoteCache |-> qc]
        ELSE IF loop.raised
        THEN [ret |-> NoPrices, calls |-> loop.calls, raised |-> TRUE,
              cached |-> FALSE, quoteCache |-> qc]
        ELSE [ret |-> loop.live_prices, calls |-> loop.calls, raised |-> FALSE,
              cached |-> FALSE,
              quoteCache |->
                  IF HasAttr("_data_cache")
                  THEN [k \in (DOMAIN qc) \cup {key} |->
                          IF k = key
                          THEN [data |-> loop.live_prices, time |-> t]
                          ELSE qc[k]]
                  ELSE qc]

FetchLivePrices(symbols, force_refresh, av, yf) ==
    /\ nquotes < MaxQuotes
    /\ \E r \in {fetch_live_prices(quoteCache, now, symbols, force_refresh, av, yf)} :
        /\ nquotes' = nquotes + 1
        /\ quoteCache' = r.quoteCache
        /\ lastQuote' = [symbols |-> symbols, force |-> force_refresh,
                         time |-> now, calls |-> r.calls, ret |-> r.ret,
                         raised |-> r.raised, cached |-> r.cached]
        /\ UNCHANGED <<now, ledgerVars, fetchVars, raceVars, sessionVars, riskVars>>

QuoteInit ==
    /\ quoteCache = [k \in {} |-> [data |-> NoPrices, time |-> 0]]
    /\ lastQuote = [symbols |-> <<>>, force |-> FALSE, time |-> 0, calls |-> <<>>,
                    ret |-> NoPrices, raised |-> FALSE, cached |-> FALSE]
    /\ nquotes = 0

SymbolsOf(symbols) == {symbols[i] : i \in 1..Len(symbols)}

\* yfinance is consulted only for a symbol Alpha Vantage failed on, so its
\* outcome is enumerated for those symbols only
DoQuote == \E symbols \in QuoteRequests, force \in BOOLEAN :
              \E av \in [SymbolsOf(symbols) -> AvQuoteOutcomes] :
                 \E yf \in [SymbolsOf(symbols) -> YfQuoteOutcomes] :
                    /\ \A s \in SymbolsOf(symbols) : av[s] = "ok" => yf[s] = "none"
                    /\ FetchLivePrices(symbols, force, av, yf)

(***************************************************************************)
(* Risk metrics (services/risk_calculator.py).  A pandas Series is a       *)
(* sequence of exact rationals, NotComputable is Python None.              *)
(***************************************************************************)
RNeg(x) == <<0 - x[1], x[2]>>

RAbs(x) == <<Abs(x[1]), x[2]>>

\* the longest return series drawn
MaxReturns == 5

\* daily returns, in hundredths
ReturnValues == {Norm(n, 100) : n \in {-10, -5, 0, 5, 10}}

\* all-positive returns, in hundredths
GainValues == {Norm(n, 100) : n \in {1, 2}}

ReturnSeries ==
    UNION {[1..n -> ReturnValues] : n \in 0..MaxReturns}
    \cup UNION {[1..n -> GainValues] : n \in 1..2}

\* the confidence levels asked for
ConfidenceLevels == {<<1, 2>>, <<4, 5>>, <<19, 20>>}

\* the values of xs in ascending order
RECURSIVE Insert(_, _)
Insert(x, xs) ==
    IF xs = <<>> THEN <<x>>
    ELSE IF RLe(x, Head(xs)) THEN <<x>> \o xs
    ELSE <<Head(xs)>> \o Insert(x, Tail(xs))

RECURSIVE SortValues(_)
SortValues(xs) ==
    IF xs = <<>> THEN <<>> ELSE Insert(Head(xs), SortValues(Tail(xs)))

\* Series.quantile(q), interpolation='linear': with the n sorted values at
\* positions 0..n-1, the value at position (n - 1) * q, interpolated between
\* its two neighbours
quantile(xs, q) ==
    LET sorted == SortValues(xs)
        num == (Len(xs) - 1) * q[1]
        lo == num \div q[2]
        frac == Norm(num % q[2], q[2])
    IN  IF frac = RZero
        THEN sorted[lo + 1]
        ELSE RAdd(sorted[lo + 1],
                  RMul(frac, RSub(sorted[lo + 2], sorted[lo + 1])))

\* the sum of xs[lo..hi], by halves
RECURSIVE SumBetween(_, _, _)
SumBetween(xs, lo, hi) ==
    IF lo > hi THEN RZero
    ELSE IF lo = hi THEN xs[lo]
    ELSE RAdd(SumBetween(xs, lo, (lo + hi) \div 2),
              SumBetween(xs, (lo + hi) \div 2 + 1, hi))

SumValues(xs) == SumBetween(xs, 1, Len(xs))

\* Series.mean() of a non-empty series
mean(xs) == RDiv(SumValues(xs), R(Len(xs)))

\* returns[returns < bound]
RECURSIVE Below(_, _)
Below(xs, bound) ==
    IF xs = <<>> THEN <<>>
    ELSE IF RLt(Head(xs), bound)
         THEN <<Head(xs)>> \o Below(Tail(xs), bound)
         ELSE Below(Tail(xs), bound)

\* returns[returns > bound]
RECURSIVE Above(_, _)
Above(xs, bound) ==
    IF xs = <<>> THEN <<>>
    ELSE IF RLt(bound, Head(xs))
         THEN <<Head(xs)>> \o Above(Tail(xs), bound)
         ELSE Above(Tail(xs), bound)

\* pandas objects: a Series of values, a DataFrame of columns; anything
\* else (a list) has no 'shape'
Series(xs) == [type |-> "Series", values |-> xs]

DataFrame(cols) == [type |-> "DataFrame", columns |-> cols]

HasShape(x) == x.type \in {"Series", "DataFrame"}

\* len(x): the number of rows
RowCount(x) ==
    IF x.type = "DataFrame"
    THEN IF x.columns = <<>> THEN 0 ELSE Cardinality(DOMAIN x.columns[1])
    ELSE Cardinality(DOMAIN x.values)

\* a DataFrame that does not have exactly one column
MultiColumn(x) == x.type = "DataFrame" /\ Len(x.columns) # 1

\* returns.iloc[:, 0] of a one-column DataFrame, or the Series itself
OneColumn(x) == IF x.type = "DataFrame" THEN x.columns[1] ELSE x.values

\* VaR as minus the quantile at the confidence level itself
calculate_var_AtConfidence(returns, confidence_level) ==
    IF ~HasShape(returns) THEN None
    ELSE IF RowCount(returns) = 0 THEN None
    ELSE IF MultiColumn(returns) THEN None
    ELSE RNeg(quantile(OneColumn(returns), confidence_level))

\* minus the quantile at 1 - confidence_level; None for an object without
\* shape, an empty one and a DataFrame of several columns
calculate_var(returns, confidence_level) ==
    IF ~HasShape(returns) THEN None
    ELSE IF RowCount(returns) = 0 THEN None
    ELSE IF MultiColumn(returns) THEN None
    ELSE RNeg(quantile(OneColumn(returns), RSub(R(1), confidence_level)))

\* ES as minus the mean of the returns above -VaR
calculate_es_UpperTail(returns, confidence_level) ==
    IF ~HasShape(returns) THEN None
    ELSE IF RowCount(returns) = 0 THEN None
    ELSE IF MultiColumn(returns) THEN None
    ELSE LET var == calculate_var(Series(OneColumn(returns)), confidence_level)
             tail_returns == Above(OneColumn(returns), RNeg(var))
         IN  IF var = None THEN None
             ELSE IF Len(tail_returns) = 0 THEN None
             ELSE RNeg(mean(tail_returns))

\* minus the mean of the returns strictly below -VaR; None when VaR is None
\* or no return is below -VaR
calculate_es(returns, confidence_level) ==
    IF ~HasShape(returns) THEN None
    ELSE IF RowCount(returns) = 0 THEN None
    ELSE IF MultiColumn(returns) THEN None
    ELSE LET var == calculate_var(Series(OneColumn(returns)), confidence_level)
             tail_returns == Below(OneColumn(returns), RNeg(var))
         IN  IF var = None THEN None
             ELSE IF Len(tail_returns) = 0 THEN None
             ELSE RNeg(mean(tail_returns))

\* no risk call made yet
NoRiskInput == [kind |-> "none"]

NoRiskOutput == [kind |-> "none"]

RiskIdle ==
    /\ riskIn = NoRiskInput
    /\ riskOut = NoRiskOutput

(***************************************************************************)
(* calculate_beta.  Here a Series maps index labels to values, a missing   *)
(* value is NaN, and two Series are paired on the labels they share.       *)
(***************************************************************************)
\* not a number: the pair with denominator 0
NaN == <<0, 0>>

\* len(combined) < 30
MinObservations == 30

\* the labels at which both series have a value: DataFrame({'stock': ...,
\* 'market': ...}).dropna()
PairedLabels(stock, market) ==
    {i \in (DOMAIN stock) \cap (DOMAIN market) : stock[i] # NaN /\ market[i] # NaN}

\* the largest index label of the series drawn
MaxLabel == MinObservations + 2

\* the sum of f over the labels of S in lo..hi, by halves
RECURSIVE SumRange(_, _, _, _)
SumRange(f, S, lo, hi) ==
    IF lo > hi THEN RZero
    ELSE IF lo = hi THEN (IF lo \in S THEN f[lo] ELSE RZero)
    ELSE LET mid == (lo + hi) \div 2
         IN  RAdd(SumRange(f, S, lo, mid), SumRange(f, S, mid + 1, hi))

SumOver(f, S) == SumRange(f, S, 1, MaxLabel)

MeanOver(f, S) == RDiv(SumOver(f, S), R(Cardinality(S)))

\* Series.cov(other): the sample covariance (ddof = 1) over the labels S
CovOver(f, g, S) ==
    LET mf == MeanOver(f, S)
        mg == MeanOver(g, S)
        products == [i \in S |-> RMul(RSub(f[i], mf), RSub(g[i], mg))]
    IN  RDiv(SumOver(products, S), R(Cardinality(S) - 1))

\* the rule for one asset, with every row of the asset counted as an
\* observation, matched or not
BetaOf_CountsAllRows(stock, market) ==
    LET combined == PairedLabels(stock, market)
    IN  IF Cardinality(DOMAIN stock) < MinObservations THEN None
        ELSE IF CovOver(market, market, combined) = RZero THEN None
        ELSE RDiv(CovOver(stock, market, combined),
                  CovOver(market, market, combined))

\* the rule for one asset (lines 198-211 and 220-232)
BetaOf(stock, market) ==
    LET combined == PairedLabels(stock, market)
    IN  IF Cardinality(combined) < MinObservations THEN None
        ELSE IF CovOver(market, market, combined) = RZero THEN None
        ELSE RDiv(CovOver(stock, market, combined),
                  CovOver(market, market, combined))

\* what a function that may return a number, None or a pandas Series
\* returned: one value, or one value per column
Scalar(x) == [type |-> "scalar", value |-> x]

PerColumn(xs) == [type |-> "Series", value |-> xs]

calculate_beta(stock_returns, market_returns) ==
    IF RowCount(stock_returns) = 0 \/ RowCount(market_returns) = 0
    THEN Scalar(None)
    ELSE IF stock_returns.type = "DataFrame" /\ Len(stock_returns.columns) > 1
    THEN PerColumn([k \in 1..Len(stock_returns.columns) |->
                       BetaOf(stock_returns.columns[k], market_returns.values)])
    ELSE IF stock_returns.type # "Series" THEN Scalar(None)
    ELSE IF market_returns.type # "Series" THEN Scalar(None)
    ELSE Scalar(BetaOf(stock_returns.values, market_returns.values))

(***************************************************************************)
(* Volatility, Sharpe, Sortino, maximum drawdown, Calmar.  A result is     *)
(* None, a float (exact, or exact under a square root), inf, nan, or a     *)
(* Series with one value per column.                                       *)
(***************************************************************************)
NotComputable == [type |-> "NoneType"]

Float(x) == [type |-> "float", value |-> x]

\* the float sqrt(x)
Root(x) == [type |-> "float", sqrt_of |-> x]

\* the float num / sqrt(x)
Ratio(num, x) == [type |-> "float", num |-> num, over_sqrt_of |-> x]

Inf == [type |-> "inf"]

NanFloat == [type |-> "nan"]

\* a None-or-number result as a typed result
Typed(x) == IF x = None THEN NotComputable ELSE Float(x)

SumSquaredDeviations(xs, m) ==
    SumValues([i \in 1..Len(xs) |-> RMul(RSub(xs[i], m), RSub(xs[i], m))])

\* Series.std() squared: the sample variance (ddof = 1), NaN for one value
SampleVariance(xs) ==
    IF Len(xs) < 2 THEN NaN
    ELSE RDiv(SumSquaredDeviations(xs, mean(xs)), R(Len(xs) - 1))

\* trading days per year
TradingDays == 252

\* analyze(risk_free_rate=0.02)
risk_free_rate == Norm(2, 100)

calculate_annualized_volatility(returns) ==
    IF ~HasShape(returns) THEN NotComputable
    ELSE IF RowCount(returns) = 0 THEN NotComputable
    ELSE IF MultiColumn(returns) THEN NotComputable
    ELSE LET variance == SampleVariance(OneColumn(returns))
         IN  IF variance = NaN THEN NanFloat
             ELSE Root(RMul(R(TradingDays), variance))

calculate_sharpe_ratio(returns, rf) ==
    IF ~HasShape(returns) THEN NotComputable
    ELSE IF RowCount(returns) = 0 THEN NotComputable
    ELSE IF MultiColumn(returns) THEN NotComputable
    ELSE LET annual_return == RMul(mean(OneColumn(returns)), R(TradingDays))
             annual_volatility ==
                 calculate_annualized_volatility(Series(OneColumn(returns)))
         IN  IF annual_volatility = NotComputable THEN NotComputable
             ELSE IF annual_volatility = NanFloat THEN NanFloat
             ELSE IF annual_volatility.sqrt_of = RZero THEN Inf
             ELSE Ratio(RSub(annual_return, rf), annual_volatility.sqrt_of)

calculate_sortino_ratio(returns, rf) ==
    IF ~HasShape(returns) THEN NotComputable
    ELSE IF RowCount(returns) = 0 THEN NotComputable
    ELSE IF MultiColumn(returns) THEN NotComputable
    ELSE LET annual_return == RMul(mean(OneColumn(returns)), R(TradingDays))
             downside_returns == Below(OneColumn(returns), RZero)
             variance == SampleVariance(downside_returns)
         IN  IF Len(downside_returns) = 0 THEN Inf
             ELSE IF variance = NaN THEN NanFloat
             ELSE IF variance = RZero THEN Inf
             ELSE Ratio(RSub(annual_return, rf), RMul(R(TradingDays), variance))

\* min over t of (prices[t] - running_max[t]) / running_max[t], from row i on
RECURSIVE DrawdownFrom(_, _, _, _)
DrawdownFrom(prices, i, running_max, lowest) ==
    IF i > Len(prices) THEN lowest
    ELSE LET top == IF RLt(running_max, prices[i]) THEN prices[i] ELSE running_max
             drawdown == RDiv(RSub(prices[i], top), top)
         IN  DrawdownFrom(prices, i + 1, top,
                          IF RLt(drawdown, lowest) THEN drawdown ELSE lowest)

DrawdownMin(prices) == DrawdownFrom(prices, 1, prices[1], RZero)

\* no look at the shape: expanding().max() and min() work column by column
\* on a DataFrame, and the result is a Series with one drawdown per column
calculate_maximum_drawdown(prices) ==
    IF RowCount(prices) = 0 THEN NotComputable
    ELSE IF prices.type = "DataFrame"
    THEN PerColumn([k \in 1..Len(prices.columns) |->
                       DrawdownMin(prices.columns[k])])
    ELSE Float(DrawdownMin(prices.values))

\* (1 + returns).cumprod() of one column
RECURSIVE CumProdFrom(_, _, _)
CumProdFrom(xs, i, acc) ==
    IF i > Len(xs) THEN <<>>
    ELSE <<RMul(acc, RAdd(R(1), xs[i]))>>
         \o CumProdFrom(xs, i + 1, RMul(acc, RAdd(R(1), xs[i])))

CumProd(returns) ==
    IF returns.type = "DataFrame"
    THEN DataFrame([k \in 1..Len(returns.columns) |->
                       CumProdFrom(returns.columns[k], 1, R(1))])
    ELSE Series(CumProdFrom(returns.values, 1, R(1)))

\* the annual return is taken from the first column; a drawdown Series of
\* several values makes 'max_dd_value == 0' raise ValueError, which the
\* except of line 293 turns into None
calculate_calmar_ratio(returns) ==
    IF RowCount(returns) = 0 THEN NotComputable
    ELSE LET annual_return ==
                 RMul(mean(OneColumn(returns)), R(TradingDays))
             max_dd == calculate_maximum_drawdown(CumProd(returns))
             max_dd_value == IF max_dd.type = "Series"
                             THEN max_dd.value[1] ELSE max_dd.value
         IN  IF max_dd = NotComputable THEN Inf
             ELSE IF max_dd.type = "Series" /\ Len(max_dd.value) # 1
             THEN NotComputable
             ELSE IF max_dd_value = RZero THEN Inf
             ELSE Float(RDiv(annual_return, RAbs(max_dd_value)))

\* the metrics other than Beta
Metrics == {"VaR", "ES", "Volatility", "Sharpe", "Sortino", "MaxDrawdown", "Calmar"}

\* the longest table a metric is given
MaxRows == 2

\* returns of -50 %, 0 and +100 %
MetricValues == {Norm(-1, 2), RZero, R(1)}

MetricColumns(n) == [1..n -> MetricValues]

\* a Series, a one-column table or a two-column table of returns
MetricInputs ==
    UNION {{Series(c) : c \in MetricColumns(n)}
           \cup {DataFrame(<<c>>) : c \in MetricColumns(n)}
           \cup {DataFrame(<<c1, c2>>) : c1 \in MetricColumns(n), c2 \in MetricColumns(n)}
           : n \in 0..MaxRows}

\* one metric applied to a table of returns (the drawdown: to the prices the
\* returns compound to)
ApplyMetric(metric, returns) ==
    CASE metric = "VaR" -> Typed(calculate_var(returns, <<19, 20>>))
      [] metric = "ES" -> Typed(calculate_es(returns, <<19, 20>>))
      [] metric = "Volatility" -> calculate_annualized_volatility(returns)
      [] metric = "Sharpe" -> calculate_sharpe_ratio(returns, risk_free_rate)
      [] metric = "Sortino" -> calculate_sortino_ratio(returns, risk_free_rate)
      [] metric = "MaxDrawdown" -> calculate_maximum_drawdown(CumProd(returns))
      [] metric = "Calmar" -> calculate_calmar_ratio(returns)

MetricInit ==
    /\ riskIn \in {[kind |-> "metric", metric |-> m, returns |-> r] :
                      m \in Metrics, r \in MetricInputs}
    /\ riskOut = NoRiskOutput

CalcMetric ==
    /\ riskOut = NoRiskOutput
    /\ riskOut' = [kind |-> "metric",
                   value |-> ApplyMetric(riskIn.metric, riskIn.returns)]
    /\ UNCHANGED <<riskIn, now, ledgerVars, fetchVars, quoteVars, raceVars,
                   sessionVars>>

(***************************************************************************)
(* ProfessionalRiskEngine.analyze and DataService.fetch_market_data        *)
(***************************************************************************)
\* prices.pct_change().dropna()
RECURSIVE PctChangeFrom(_, _)
PctChangeFrom(prices, i) ==
    IF i >= Len(prices) THEN <<>>
    ELSE <<RSub(RDiv(prices[i + 1], prices[i]), R(1))>>
         \o PctChangeFrom(prices, i + 1)

calculate_returns(prices) == Series(PctChangeFrom(prices.values, 1))

\* the benchmark's closing prices: Alpha Vantage first; on any exception
\* yf.download, called inside the except block with nothing around it, so
\* an exception of yf.download leaves the function
fetch_market_data(av, yf, market_prices) ==
    IF av = "ok" THEN [raised |-> FALSE, data |-> Series(market_prices)]
    ELSE IF yf = "raise" THEN [raised |-> TRUE, data |-> Series(<<>>)]
    ELSE IF yf = "empty" THEN [raised |-> FALSE, data |-> Series(<<>>)]
    ELSE [raised |-> FALSE, data |-> Series(market_prices)]

\* the keys of the report
ReportKeys == {"VaR (95%)", "VaR (99%)", "ES (95%)", "ES (99%)",
               "Annualized Volatility", "Annualized Return", "Sharpe Ratio",
               "Sortino Ratio", "Calmar Ratio", "Beta (vs SPY)", "Maximum Drawdown",
               "Skewness", "Kurtosis"}

\* returns.skew() / returns.kurtosis(): nan below 3 (4) values, else the
\* standardized moment of the values
Moment(order, returns) ==
    IF RowCount(returns) = 0 THEN NotComputable
    ELSE IF RowCount(returns) <= order - 1 THEN NanFloat
    ELSE [type |-> "float", moment |-> order, of |-> returns.values]

ErrorReport ==
    [k \in {"Error"} |-> [type |-> "str", value |-> "No price data available"]]

NoReport == [k \in {} |-> NotComputable]

analyze(stock_data, av, yf, market_prices) ==
    IF ~stock_data.has_close
    THEN [raised |-> FALSE, report |-> ErrorReport]
    ELSE LET prices == IF stock_data.close.type = "DataFrame"
                       THEN Series(stock_data.close.columns[1])
                       ELSE stock_data.close
             returns == calculate_returns(prices)
             market == fetch_market_data(av, yf, market_prices)
             market_returns == IF RowCount(market.data) # 0
                               THEN calculate_returns(market.data)
                               ELSE Series(<<>>)
             value(k) ==
                 CASE k = "VaR (95%)" -> Typed(calculate_var(returns, <<19, 20>>))
                   [] k = "VaR (99%)" -> Typed(calculate_var(returns, <<99, 100>>))
                   [] k = "ES (95%)" -> Typed(calculate_es(returns, <<19, 20>>))
                   [] k = "ES (99%)" -> Typed(calculate_es(returns, <<99, 100>>))
                   [] k = "Annualized Volatility" ->
                        calculate_annualized_volatility(returns)
                   [] k = "Annualized Return" ->
                        IF RowCount(returns) = 0 THEN NotComputable
                        ELSE Float(RMul(mean(returns.values), R(TradingDays)))
                   [] k = "Sharpe Ratio" ->
                        calculate_sharpe_ratio(returns, risk_free_rate)
                   [] k = "Sortino Ratio" ->
                        calculate_sortino_ratio(returns, risk_free_rate)
                   [] k = "Calmar Ratio" -> calculate_calmar_ratio(returns)
                   [] k = "Beta (vs SPY)" ->
                        Typed(calculate_beta(returns, market_returns).value)
                   [] k = "Maximum Drawdown" -> calculate_maximum_drawdown(prices)
                   [] k = "Skewness" -> Moment(3, returns)
                   [] k = "Kurtosis" -> Moment(4, returns)
         IN  IF market.raised
             THEN [raised |-> TRUE, report |-> NoReport]
             ELSE [raised |-> FALSE, report |-> [k \in ReportKeys |-> value(k)]]

\* the longest short price series analysed
MaxPrices == 3

PriceValues == {R(50), R(100), R(200)}

\* a price history long enough for Beta: 31 closes, 100 and 200 in turn
LongPrices == [i \in 1..(MinObservations + 1) |->
                  IF i % 2 = 1 THEN R(100) ELSE R(200)]

\* stock_data: no 'Close' column, a 'Close' Series, or a 'Close' table of two
\* columns
StockData ==
    {[has_close |-> FALSE, close |-> Series(<<>>)]}
    \cup {[has_close |-> TRUE, close |-> Series(c)] :
             c \in UNION {[1..n -> PriceValues] : n \in 1..MaxPrices} \cup {LongPrices}}
    \cup {[has_close |-> TRUE, close |-> DataFrame(<<c1, c2>>)] :
             c1 \in [1..2 -> PriceValues], c2 \in [1..2 -> PriceValues]}

\* what the benchmark's providers would return
MarketPrices == {<<R(100), R(200), R(100)>>, LongPrices}

AnalyzeInit ==
    /\ riskIn \in {[kind |-> "analyze", stock_data |-> sd, av |-> av, yf |-> yf,
                    market_prices |-> mp] :
                      sd \in StockData, av \in AvOutcomes, yf \in YfOutcomes,
                      mp \in MarketPrices}
    /\ riskOut = NoRiskOutput

Analyze ==
    /\ riskOut = NoRiskOutput
    /\ \E r \in {analyze(riskIn.stock_data, riskIn.av, riskIn.yf,
                         riskIn.market_prices)} :
          riskOut' = [kind |-> "report", raised |-> r.raised, report |-> r.report]
    /\ UNCHANGED <<riskIn, now, ledgerVars, fetchVars, quoteVars, raceVars,
                   sessionVars>>

\* the series beta is asked for: lengths around the threshold, a few shapes
BetaLengths == {MinObservations - 1, MinObservations, MinObservations + 1}

\* the returns of the shapes, in percent
PatternValue(pattern, i) ==
    CASE pattern = "flat" -> R(1)
      [] pattern = "alt" -> IF i % 2 = 1 THEN R(1) ELSE R(-1)
      [] pattern = "double" -> IF i % 2 = 1 THEN R(2) ELSE R(-2)
      [] pattern = "opposite" -> IF i % 2 = 1 THEN R(-1) ELSE R(1)
      [] pattern = "saw" -> R(i % 3)

StockPatterns == {"flat", "alt", "double", "opposite", "saw"}

MarketPatterns == {"flat", "alt", "saw"}

\* the labels at which an asset has no value
NanSets == {{}, {2}, {2, 3}}

\* the market series starts at label 1 + shift
IndexShifts == {0, 1}

StockColumn(n, pattern, nans) ==
    [i \in 1..n |-> IF i \in nans THEN NaN ELSE PatternValue(pattern, i)]

MarketColumn(n, pattern, shift) ==
    [i \in (1 + shift)..(n + shift) |-> PatternValue(pattern, i)]

StockColumns ==
    {StockColumn(n, p, nans) : n \in BetaLengths, p \in StockPatterns, nans \in NanSets}

\* two assets of one table share its index
StockTables ==
    UNION {{<<StockColumn(n, p1, nans1), StockColumn(n, p2, nans2)>> :
               p1 \in {"alt", "saw"}, p2 \in {"double", "flat"},
               nans1 \in {{}, {2}}, nans2 \in {{}, {2, 3}}} : n \in BetaLengths}

\* the benchmark's returns, or pd.Series() when there is no market data
MarketSeries ==
    {Series(MarketColumn(n, p, shift)) :
        n \in BetaLengths, p \in MarketPatterns, shift \in IndexShifts}
    \cup {Series(<<>>)}

BetaInit ==
    /\ riskIn \in {[kind |-> "beta", stock |-> stock, market |-> market] :
                      stock \in {Series(c) : c \in StockColumns}
                                \cup {DataFrame(t) : t \in StockTables},
                      market \in MarketSeries}
    /\ riskOut = NoRiskOutput

CalcBeta ==
    /\ riskOut = NoRiskOutput
    /\ riskOut' = [kind |-> "beta",
                   beta |-> calculate_beta(riskIn.stock, riskIn.market)]
    /\ UNCHANGED <<riskIn, now, ledgerVars, fetchVars, quoteVars, raceVars,
                   sessionVars>>

\* VaR and ES of one return series at every confidence level
TailRiskInit ==
    /\ riskIn \in {[kind |-> "returns", returns |-> Series(r)] : r \in ReturnSeries}
    /\ riskOut = NoRiskOutput

CalcTailRisk ==
    /\ riskOut = NoRiskOutput
    /\ riskOut' = [kind |-> "tail",
                   var |-> [c \in ConfidenceLevels |->
                               calculate_var(riskIn.returns, c)],
                   es |-> [c \in ConfidenceLevels |->
                              calculate_es(riskIn.returns, c)]]
    /\ UNCHANGED <<riskIn, now, ledgerVars, fetchVars, quoteVars, raceVars,
                   sessionVars>>

(***************************************************************************)
(* Specifications                                                          *)
(***************************************************************************)
LedgerInit ==
    /\ assets = [s \in {} |-> NewAsset(RZero, None, None)]
    /\ transactions = <<>>
    /\ lastOp = OpRecord("init", "", None, None, TRUE, None)
    /\ nops = 0

SessionInit ==
    /\ dbSession = [saving |-> FALSE, nsaves |-> 0, ticker |-> "", period |-> "",
                    data |-> NoneDF, ok |-> FALSE,
                    before |-> KeyContent(<<>>, <<>>, "", ""),
                    rowsDeleted |-> {}, entriesDeleted |-> {},
                    failed |-> NoFailure]
    /\ dbReader = IdleReader

\* nothing traded, fetched, quoted or saved
IdleProgram ==
    LedgerInit /\ FetchInit /\ QuoteInit /\ RaceIdle /\ SessionInit

Init == LedgerInit /\ FetchInit /\ QuoteInit /\ RaceIdle /\ SessionInit /\ RiskIdle

DoAdd == \E s \in Symbols, a \in AddAllocations, p \in AddPrices, q \in AddQuantities :
            AddAsset(s, a, p, q)

DoSell == \E s \in Symbols, q \in SellQuantities, p \in SellPrices : SellAsset(s, q, p)

DoRemove == \E s \in Symbols : RemoveAsset(s)

DoRebalance == \E t \in TargetMaps : Rebalance(t)

\* the ledger
Next == DoAdd \/ DoSell \/ DoRemove \/ DoRebalance

Spec == Init /\ [][Next]_vars

\* the price-series cache under a running clock
FetchNext == DoFetch \/ Tick

FetchSpec == Init /\ [][FetchNext]_vars

\* the live-quote fetch under a running clock
QuoteNext == DoQuote \/ Tick

QuoteSpec == Init /\ [][QuoteNext]_vars

\* the inputs of the commit-by-commit ledger
CommitAllocations == {None, R(400)}

CommitPrices == {None, R(50)}

CommitQuantities == {None, R(10)}

CommitSellQuantities == {R(4), R(10)}

CommitSellPrices == {R(60)}

DoAddWithFate == \E s \in Symbols, a \in CommitAllocations, p \in CommitPrices,
                    q \in CommitQuantities, f \in Fates :
                    AddAssetWithFate(s, a, p, q, f)

DoSellWithFate == \E s \in Symbols, q \in CommitSellQuantities,
                     p \in CommitSellPrices, f \in Fates :
                     SellAssetWithFate(s, q, p, f)

DoRemoveWithFate == \E s \in Symbols, f \in Fates : RemoveAssetWithFate(s, f)

DoRebalanceWithFate == \E t \in TargetMaps, f \in Fates : RebalanceWithFate(t, f)

\* the ledger with crashes between commits and commits that raise
CommitNext == DoAddWithFate \/ DoSellWithFate \/ DoRemoveWithFate \/ DoRebalanceWithFate

CommitSpec == Init /\ [][CommitNext]_vars

\* the ledger after add_asset_to_portfolio(RaceSymbol, purchase_price=50,
\* quantity=10) on an empty portfolio
RaceInit ==
    /\ assets = update_portfolio_weights(
                    Upserted(NoRows, RaceSymbol, RMul(RacePrice, RaceHeld),
                             RacePrice, RaceHeld))
    /\ transactions = <<BuyTransaction(RaceSymbol, RacePrice, RaceHeld)>>
    /\ lastOp = OpRecord("add", RaceSymbol, RaceHeld, RacePrice, TRUE, None)
    /\ nops = 0
    /\ FetchInit /\ QuoteInit /\ RaceIdle /\ SessionInit /\ RiskIdle

DoSellLoad == \E p \in Procs, q \in RaceSellQuantities, price \in RaceSellPrices :
                 SellLoad(p, RaceSymbol, q, price)

DoSellFinish == \E p \in Procs, d \in StaleDeletes : SellFinish(p, d)

\* sell_asset calls of concurrent requests on one position
RaceNext == DoSellLoad \/ DoSellFinish

RaceSpec == RaceInit /\ [][RaceNext]_vars

DoSaveBegin == \E ticker \in Tickers, period \in Periods, data \in SaveTables(now) :
                  SaveBegin(ticker, data, period)

DoReadEntry == \E session \in Sessions, ticker \in Tickers, period \in Periods :
                  ReadEntry(session, ticker, period)

\* the durable cache written by one request thread and read by it and by
\* another one
DurableNext == DoSaveBegin \/ SaveEnd \/ DoReadEntry \/ ReadRows

DurableSpec == Init /\ [][DurableNext]_vars

\* single-ticker price series requested under several periods
WriteThroughNext == DoFetchSingle \/ Tick

WriteThroughSpec == Init /\ [][WriteThroughNext]_vars

\* the ledger under purchases (add_asset_to_portfolio with a price and a
\* quantity) and sales only
TradePrices == {R(50), R(60)}

TradeQuantities == {R(4), R(10)}

DoBuy == \E s \in Symbols, p \in TradePrices, q \in TradeQuantities :
            AddAsset(s, None, p, q)

TradeNext == DoBuy \/ DoSell

TradeSpec == Init /\ [][TradeNext]_vars

\* Beta as a pure function of an asset's (or several assets') returns and the
\* market's
BetaNext == CalcBeta

BetaStart == IdleProgram /\ BetaInit

BetaSpec == BetaStart /\ [][BetaNext]_vars

\* each metric other than Beta as a pure function of a table of returns
MetricNext == CalcMetric

MetricStart == IdleProgram /\ MetricInit

MetricSpec == MetricStart /\ [][MetricNext]_vars

\* one analysis of a stock against the benchmark the providers deliver
AnalyzeNext == Analyze

AnalyzeStart == IdleProgram /\ AnalyzeInit

AnalyzeSpec == AnalyzeStart /\ [][AnalyzeNext]_vars

\* VaR and ES as pure functions of a return series
TailRiskNext == CalcTailRisk

TailRiskStart == IdleProgram /\ TailRiskInit

TailRiskSpec == TailRiskStart /\ [][TailRiskNext]_vars

(***************************************************************************)
(* Ledger properties                                                       *)
(***************************************************************************)
\* C1: sell_asset on a symbol without a position, or for more than the held
\* quantity, reports failure and leaves every position (quantity, allocation,
\* weight, realized_pnl), the set of positions and the transaction log as
\* they were.
C1_RejectedSaleChangesNothing ==
    [][(/\ nops' = nops + 1
        /\ lastOp'.op = "sell"
        /\ \/ lastOp'.symbol \notin DOMAIN assets
           \/ RLt(IF assets[lastOp'.symbol].quantity = None
                  THEN RZero ELSE assets[lastOp'.symbol].quantity,
                  lastOp'.quantity))
       => (/\ ~lastOp'.success
           /\ assets' = assets
           /\ transactions' = transactions)]_vars

\* C1 witness: an oversell of a held position has just been rejected
C1_Witness ==
    /\ lastOp.op = "sell"
    /\ ~lastOp.success
    /\ lastOp.symbol \in DOMAIN assets
    /\ assets[lastOp.symbol].quantity # None
    /\ RLt(assets[lastOp.symbol].quantity, lastOp.quantity)
    /\ transactions # <<>>

\* C2: a successful sale of q units at price p that leaves the position in
\* place yields realized P&L (p - costBasis) * q with costBasis the purchase
\* price if known and allocation / quantity otherwise, reduces quantity by q,
\* scales allocation in the proportion of the quantity and adds the realized
\* P&L to the position's realized_pnl.
C2_PartialSaleProportional ==
    [][(/\ nops' = nops + 1
        /\ lastOp'.op = "sell"
        /\ lastOp'.success
        /\ lastOp'.symbol \in DOMAIN assets')
       => LET old == assets[lastOp'.symbol]
              new == assets'[lastOp'.symbol]
              q == lastOp'.quantity
              basis == IF old.purchase_price # None
                       THEN old.purchase_price
                       ELSE RDiv(old.allocation, old.quantity)
              pnl == RMul(RSub(lastOp'.price, basis), q)
          IN  /\ lastOp'.realized_pnl = pnl
              /\ new.quantity = RSub(old.quantity, q)
              /\ RMul(new.allocation, old.quantity) = RMul(old.allocation, new.quantity)
              /\ new.realized_pnl = RAdd(old.realized_pnl, pnl)]_vars

\* C3: after every ledger operation each stored weight is the position's
\* allocation over the sum of all allocations (0 for every position when the
\* allocations sum to 0), so no weight survives from allocations that are no
\* longer current.
C3_WeightsFollowAllocations ==
    \A s \in DOMAIN assets :
        assets[s].weight =
            IF TotalAllocation(assets) = RZero
            THEN RZero
            ELSE RDiv(assets[s].allocation, TotalAllocation(assets))

\* C4: the transaction log only grows: every step keeps the existing entries
\* unchanged and in place, every SELL entry carries a realized_pnl and no BUY
\* entry does.
C4_TransactionLogAppendOnly ==
    [][/\ Len(transactions') >= Len(transactions)
       /\ SubSeq(transactions', 1, Len(transactions)) = transactions
       /\ \A i \in 1..Len(transactions') :
            /\ transactions'[i].transaction_type \in {"BUY", "SELL"}
            /\ transactions'[i].transaction_type = "SELL"
                 => transactions'[i].realized_pnl # None
            /\ transactions'[i].transaction_type = "BUY"
                 => transactions'[i].realized_pnl = None]_vars

\* C4 witness: the log holds a BUY and a SELL and a position was removed since
C4_Witness ==
    /\ \E i \in 1..Len(transactions) : transactions[i].transaction_type = "BUY"
    /\ \E i \in 1..Len(transactions) : transactions[i].transaction_type = "SELL"
    /\ lastOp.op \in {"remove", "rebalance"}
    /\ lastOp.success

\* C19: add_asset_to_portfolio called with a purchase price and a quantity
\* stores allocation = price * quantity whatever allocation the caller gave
\* and appends exactly one BUY transaction with that quantity, price and
\* total amount; called without both it appends no transaction.
C19_AddWithPriceAndQuantityRecordsBuy ==
    [][(/\ nops' = nops + 1
        /\ lastOp'.op = "add"
        /\ lastOp'.success)
       => IF lastOp'.price # None /\ lastOp'.quantity # None
          THEN /\ assets'[lastOp'.symbol].allocation =
                     RMul(lastOp'.price, lastOp'.quantity)
               /\ transactions' =
                     Append(transactions,
                            [symbol |-> lastOp'.symbol, transaction_type |-> "BUY",
                             quantity |-> lastOp'.quantity, price |-> lastOp'.price,
                             total_amount |-> RMul(lastOp'.price, lastOp'.quantity),
                             realized_pnl |-> None])
          ELSE transactions' = transactions]_vars

\* C20: rebalance_portfolio changes only the allocation of the positions it
\* names and the weights: the set of positions, every quantity, purchase
\* price and realized_pnl, the allocation of the positions it does not name
\* and the transaction log stay as they were, and each named position gets
\* its target allocation.
C20_RebalanceFrame ==
    [][(/\ nops' = nops + 1
        /\ lastOp'.op = "rebalance")
       => /\ lastOp'.success
          /\ transactions' = transactions
          /\ DOMAIN assets' = DOMAIN assets
          /\ \A s \in DOMAIN assets :
                /\ assets'[s].quantity = assets[s].quantity
                /\ assets'[s].purchase_price = assets[s].purchase_price
                /\ assets'[s].realized_pnl = assets[s].realized_pnl
                /\ assets'[s].allocation =
                      IF s \in DOMAIN lastOp'.targets
                      THEN lastOp'.targets[s]
                      ELSE assets[s].allocation]_vars

\* C20 witness: a rebalance named one of two held positions; the other one,
\* bought at a price, kept its allocation, quantity and price while its
\* weight moved
C20_Witness ==
    /\ lastOp.op = "rebalance"
    /\ DOMAIN assets = {"A", "B"}
    /\ DOMAIN lastOp.targets = {"A"}
    /\ assets["A"].allocation = R(800)
    /\ assets["B"].allocation = R(500)
    /\ assets["B"].quantity = R(10)
    /\ assets["B"].purchase_price = R(50)
    /\ assets["B"].weight = <<5, 13>>

RECURSIVE SellPnlTotal(_, _)
SellPnlTotal(txs, i) ==
    IF i = 0 THEN RZero
    ELSE IF txs[i].transaction_type = "SELL"
         THEN RAdd(SellPnlTotal(txs, i - 1), txs[i].realized_pnl)
         ELSE SellPnlTotal(txs, i - 1)

\* the P&L of the positions still held that have a quote, a purchase price
\* and a quantity: (quote - purchase price) * quantity
RECURSIVE Unrealized(_, _, _)
Unrealized(as, live_prices, S) ==
    IF S = {} THEN RZero
    ELSE LET s == CHOOSE x \in S : TRUE
             rest == Unrealized(as, live_prices, S \ {s})
         IN  IF /\ live_prices[s] # None
                /\ Truthy(as[s].purchase_price)
                /\ Truthy(as[s].quantity)
             THEN RAdd(rest, RMul(RSub(live_prices[s], as[s].purchase_price),
                                  as[s].quantity))
             ELSE rest

\* C22: after every ledger call the total of get_realized_pnl_summary is the
\* sum of realized_pnl over the SELL transactions of the log; a call changes
\* it only when it is a successful sell_asset, and then by the realized P&L
\* of that sale (add, remove, rebalance and rejected sales leave it alone);
\* and for every map of live prices the total_pnl of get_portfolio_data is
\* the unrealized P&L of the held positions alone, with nothing of the
\* realized P&L in it.
C22_RealizedPnlOnlyFromSales ==
    /\ [](/\ get_realized_pnl_summary(transactions) =
                SellPnlTotal(transactions, Len(transactions))
          /\ \A live_prices \in LivePriceMaps(assets) :
                get_portfolio_data(assets, live_prices).total_pnl =
                   Unrealized(assets, live_prices, DOMAIN assets))
    /\ [][get_realized_pnl_summary(transactions') #
             get_realized_pnl_summary(transactions)
          => /\ lastOp'.op = "sell"
             /\ lastOp'.success
             /\ get_realized_pnl_summary(transactions') =
                   RAdd(get_realized_pnl_summary(transactions),
                        lastOp'.realized_pnl)]_vars

\* C22 witness: 4 of 10 shares of A bought at 50 were sold at 60 and a
\* rebalance followed; the realized total is still 40, and at a quote of 60
\* the 6 shares left show an unrealized P&L of 60
C22_Witness ==
    /\ lastOp.op = "rebalance"
    /\ Len(transactions) = 2
    /\ get_realized_pnl_summary(transactions) = R(40)
    /\ DOMAIN assets = {"A"}
    /\ assets["A"].quantity = R(6)
    /\ assets["A"].realized_pnl = R(40)
    /\ get_portfolio_data(assets, [s \in {"A"} |-> R(60)]).total_pnl = R(60)

\* the total quantity of the rows of one type logged for a symbol in txs[1..i]
RECURSIVE LoggedQuantity(_, _, _, _)
LoggedQuantity(txs, symbol, type, i) ==
    IF i = 0 THEN RZero
    ELSE IF txs[i].symbol = symbol /\ txs[i].transaction_type = type
         THEN RAdd(LoggedQuantity(txs, symbol, type, i - 1), txs[i].quantity)
         ELSE LoggedQuantity(txs, symbol, type, i - 1)

\* C30: after any sequence of add_asset_to_portfolio calls with a price and a
\* quantity and of sell_asset calls, the quantity of every position is the
\* total quantity of the BUY rows minus the total quantity of the SELL rows
\* logged for its symbol, and for a symbol without a position the two totals
\* differ by at most Epsilon.
C30_HeldIsBoughtMinusSold ==
    \A s \in Symbols :
        LET bought == LoggedQuantity(transactions, s, "BUY", Len(transactions))
            sold == LoggedQuantity(transactions, s, "SELL", Len(transactions))
        IN  IF s \in DOMAIN assets
            THEN assets[s].quantity = RSub(bought, sold)
            ELSE /\ RLe(RSub(bought, sold), Epsilon)
                 /\ RLe(RSub(sold, bought), Epsilon)

\* C17: when a ledger handler (add, sell, remove, rebalance) dies between two
\* of its commits on a portfolio whose persisted weights summed to 0 or 1,
\* the persisted weights still sum to 0 or to 1.
C17_CrashKeepsWeightSum ==
    [][(/\ nops' = nops + 1
        /\ lastOp'.fate = "crash"
        /\ SumWeight(assets, DOMAIN assets) \in {RZero, R(1)})
       => SumWeight(assets', DOMAIN assets') \in {RZero, R(1)}]_vars

\* C18: when add_asset_to_portfolio, sell_asset or rebalance_portfolio
\* returns failure because one of its commits raised, the persisted
\* positions, their weights and the transaction log are what they were
\* before the call.
C18_FailedWriteRolledBack ==
    [][(/\ nops' = nops + 1
        /\ lastOp'.op \in {"add", "sell", "rebalance"}
        /\ lastOp'.fate = "fail"
        /\ ~lastOp'.success)
       => (/\ assets' = assets
           /\ transactions' = transactions)]_vars

\* C16: under every interleaving of concurrent sell_asset calls on one
\* position the quantities of the successful sales never add up to more than
\* the quantity that was held, and once no call is in progress the held
\* quantity is the initial quantity minus the quantities successfully sold.
C16_ConcurrentSalesNeverOversell ==
    LET sold == SoldTotal(transactions, Len(transactions))
    IN  /\ RLe(sold, RaceHeld)
        /\ (\A p \in Procs : sellers[p].pc = "idle")
           => HeldQuantity(assets, RaceSymbol) = RSub(RaceHeld, sold)

(***************************************************************************)
(* Price-series cache properties (FetchSpec)                               *)
(***************************************************************************)
\* C5: for a single-ticker request, a valid durable entry with rows that is
\* less than one day old is served with no provider call, and one that is
\* more than one day (24 hours) old is not served from the durable cache.
C5_DurableEntryStaleAfterOneDay ==
    [][(/\ nfetch' = nfetch + 1
        /\ Len(lastFetch'.tickers) = 1
        /\ <<lastFetch'.tickers[1], lastFetch'.period>> \in DOMAIN dbCache
        /\ dbCache[<<lastFetch'.tickers[1], lastFetch'.period>>].is_valid
        /\ lastFetch'.tickers[1] \in DOMAIN dbRows)
       => LET entry == dbCache[<<lastFetch'.tickers[1], lastFetch'.period>>]
              age == now - entry.last_updated
          IN  /\ age < SecondsPerDay
                 => /\ lastFetch'.trace = <<Step("durable", "hit")>>
                    /\ lastFetch'.ret = dbRows[lastFetch'.tickers[1]]
              /\ age > SecondsPerDay
                 => lastFetch'.trace[1] # Step("durable", "hit")]_vars

\* C6: fetch_stock_data never returns an ephemeral cache entry whose age
\* (now minus its store time) is 300 seconds or more.
C6_EphemeralEntryExpiresAfterTtl ==
    [][(/\ nfetch' = nfetch + 1
        /\ \E i \in 1..Len(lastFetch'.trace) :
              lastFetch'.trace[i] = Step("ephemeral", "hit"))
       => now - memCache[CacheKey(lastFetch'.tickers, lastFetch'.period,
                                  "daily")].time < cache_timeout]_vars

\* C7 as stated: the durable cache is read only after an ephemeral miss, and
\* the secondary provider is called only after the primary provider was
\* attempted and failed in the same request.
C7_EphemeralFirstPrimaryBeforeSecondary ==
    LET tr == lastFetch.trace
    IN  /\ \A i \in 1..Len(tr) :
              tr[i].source = "durable"
              => \E j \in 1..(i - 1) : tr[j] = Step("ephemeral", "miss")
        /\ \A i \in 1..Len(tr) :
              tr[i].source = "secondary"
              => \E j \in 1..(i - 1) :
                    tr[j].source = "primary" /\ tr[j].outcome # "ok"

\* C7 amended: a single-ticker request tries durable cache, ephemeral cache,
\* primary provider, secondary provider in that order; a multi-ticker request
\* tries the ephemeral cache and then the secondary provider only; each source
\* is attempted only after the previous one missed, was stale or failed.
C7_SourcesInCodedOrder ==
    nfetch > 0 =>
        LET tr == lastFetch.trace
            order == IF Len(lastFetch.tickers) = 1
                     THEN <<"durable", "ephemeral", "primary", "secondary">>
                     ELSE <<"ephemeral", "secondary">>
        IN  /\ Len(tr) \in 1..Len(order)
            /\ \A i \in 1..Len(tr) : tr[i].source = order[i]
            /\ \A i \in 1..(Len(tr) - 1) :
                  tr[i].outcome \in {"miss", "stale", "norows",
                                     "quota", "premium", "transient"}
            /\ Len(tr) < Len(order) => tr[Len(tr)].outcome \in {"hit", "ok"}

\* C7 witness: a single-ticker request went through all four sources
C7_Witness ==
    /\ Len(lastFetch.tickers) = 1
    /\ Len(lastFetch.trace) = 4
    /\ lastFetch.trace[1].source = "durable"
    /\ lastFetch.trace[3] = Step("primary", "premium")
    /\ lastFetch.ret.src = "yf"

\* C8: when the providers a request reaches all fail, fetch_stock_data
\* returns an empty table and raises nothing, for single- and multi-ticker
\* requests alike.
C8_ProviderFailureReturnsEmpty ==
    nfetch > 0 =>
        /\ ~lastFetch.raised
        /\ (\E i \in 1..Len(lastFetch.trace) :
               /\ lastFetch.trace[i].source = "secondary"
               /\ lastFetch.trace[i].outcome \in {"raise", "empty"})
           => lastFetch.ret = EmptyDF

\* C8 witness: Alpha Vantage failed and then yf.download raised
C8_Witness ==
    /\ Len(lastFetch.tickers) = 1
    /\ \E i \in 1..Len(lastFetch.trace) :
          lastFetch.trace[i] = Step("primary", "quota")
    /\ \E i \in 1..Len(lastFetch.trace) :
          lastFetch.trace[i] = Step("secondary", "raise")
    /\ lastFetch.ret = EmptyDF

\* C14: when Alpha Vantage or yfinance returns a non-empty table for a
\* single-ticker request, the table is afterwards both the ephemeral entry of
\* the request key and the content of the durable cache under a valid
\* (ticker, period) entry, whatever the durable cache held for that ticker
\* before.
C14_ProviderSuccessWritesBothTiers ==
    [][(/\ nfetch' = nfetch + 1
        /\ Len(lastFetch'.tickers) = 1
        /\ lastFetch'.trace[Len(lastFetch'.trace)]
              \in {Step("primary", "ok"), Step("secondary", "ok")})
       => LET ticker == lastFetch'.tickers[1]
              key == CacheKey(lastFetch'.tickers, lastFetch'.period, "daily")
              entry == <<ticker, lastFetch'.period>>
          IN  /\ lastFetch'.ret \in {DF("av", now), DF("yf", now)}
              /\ key \in DOMAIN memCache'
              /\ memCache'[key].data = lastFetch'.ret
              /\ entry \in DOMAIN dbCache'
              /\ dbCache'[entry].is_valid
              /\ dbCache'[entry].last_updated = now
              /\ ticker \in DOMAIN dbRows'
              /\ dbRows'[ticker] = lastFetch'.ret]_vars

\* C15: the replacement of a (ticker, period) key of the durable cache is
\* atomic: no reader finds a valid entry whose price rows are missing, and
\* after a save that failed or had nothing to insert the committed entry and
\* rows of the key stay what they were before it, whatever the session does
\* afterwards.
C15_DurableReplacementAtomic ==
    /\ dbReader.done => dbReader.outcome # "norows"
    /\ dbSession.failed.live
       => KeyContent(dbCache, dbRows, dbSession.failed.ticker,
                     dbSession.failed.period) = dbSession.failed.content

C10_RepeatedQuoteServedFromCache ==
    [][(/\ nquotes' = nquotes + 1
        /\ nquotes > 0
        /\ ~lastQuote'.force
        /\ Sorted(lastQuote'.symbols) = Sorted(lastQuote.symbols)
        /\ now - lastQuote.time < cache_timeout)
       => (/\ lastQuote'.calls = <<>>
           /\ lastQuote'.ret = lastQuote.ret)]_vars

\* C27: for stock data with closing prices analyze does not raise and its
\* report has an entry for every metric; when neither provider delivers the
\* benchmark the Beta entry is None and every other entry is what it is when
\* the benchmark is delivered.
C27_AnalyzeAlwaysReports ==
    (/\ riskOut.kind = "report"
     /\ riskIn.stock_data.has_close)
    => /\ ~riskOut.raised
       /\ DOMAIN riskOut.report = ReportKeys
       /\ (riskIn.av # "ok" /\ riskIn.yf # "ok")
          => /\ riskOut.report["Beta (vs SPY)"] = NotComputable
             /\ \A k \in ReportKeys \ {"Beta (vs SPY)"} :
                   riskOut.report[k] =
                      analyze(riskIn.stock_data, "ok", "ok",
                              riskIn.market_prices).report[k]

\* C28: when a provider's table for (ticker, period) is saved, a durable hit
\* for that (ticker, period) returns that table afterwards (the save did not
\* fail), and for every other period of the same ticker a durable hit returns
\* what it returned before the save.
C28_PeriodsDoNotInterfere ==
    [][(/\ nfetch' = nfetch + 1
        /\ Len(lastFetch'.tickers) = 1
        /\ lastFetch'.trace[Len(lastFetch'.trace)]
              \in {Step("primary", "ok"), Step("secondary", "ok")})
       => LET ticker == lastFetch'.tickers[1]
              hit(dbc, dbr, period) ==
                  get_stock_data_from_db(dbc, dbr, now, ticker, period)
          IN  /\ hit(dbCache', dbRows', lastFetch'.period) =
                    [data |-> lastFetch'.ret, outcome |-> "hit"]
              /\ \A other \in Periods \ {lastFetch'.period} :
                    hit(dbCache, dbRows, other).outcome = "hit"
                       => hit(dbCache', dbRows', other) =
                             hit(dbCache, dbRows, other)]_vars

\* C29: fetch_stock_data never stores an empty table in the ephemeral cache,
\* and a call answered from the ephemeral cache never returns an empty
\* table: after the providers returned no data, the next call for the same
\* key within the TTL asks the providers again.
C29_EmptyResultNotCached ==
    [][nfetch' = nfetch + 1
       => /\ \A k \in DOMAIN memCache' : memCache'[k].data # EmptyDF
          /\ lastFetch'.trace[Len(lastFetch'.trace)] = Step("ephemeral", "hit")
                => lastFetch'.ret # EmptyDF]_vars

C26_MultiColumnIsNotComputable ==
    (/\ riskOut.kind = "metric"
     /\ riskIn.returns.type = "DataFrame"
     /\ Len(riskIn.returns.columns) > 1)
    => riskOut.value = NotComputable

\* C24 as stated: whenever VaR(r, c) and ES(r, c) are both computable,
\* |ES(r, c)| >= |VaR(r, c)|, series of all-positive returns included.
C24_EsMagnitudeAtLeastVar ==
    riskOut.kind = "tail"
    => \A c \in ConfidenceLevels :
          (riskOut.var[c] # None /\ riskOut.es[c] # None)
          => RLe(RAbs(riskOut.var[c]), RAbs(riskOut.es[c]))

\* C24 amended: whenever VaR(r, c) and ES(r, c) are both computable,
\* ES(r, c) >= VaR(r, c) as signed numbers, and |ES(r, c)| >= |VaR(r, c)|
\* whenever VaR(r, c) >= 0.
C24_EsAtLeastVar ==
    riskOut.kind = "tail"
    => \A c \in ConfidenceLevels :
          (riskOut.var[c] # None /\ riskOut.es[c] # None)
          => /\ RLe(riskOut.var[c], riskOut.es[c])
             /\ RLe(RZero, riskOut.var[c])
                  => RLe(RAbs(riskOut.var[c]), RAbs(riskOut.es[c]))

\* C24 witness: for the gains 0.01, 0.02 at confidence 1/2 the quantile is
\* 0.015, so VaR = -0.015 and ES = -0.01: ES is above VaR and smaller in
\* magnitude
C24_Witness ==
    /\ riskOut.kind = "tail"
    /\ riskIn.returns = Series(<<Norm(1, 100), Norm(2, 100)>>)
    /\ riskOut.var[<<1, 2>>] = Norm(-3, 200)
    /\ riskOut.es[<<1, 2>>] = Norm(-1, 100)

\* C25 as stated: for c1 < c2, |VaR(r, c2)| >= |VaR(r, c1)| whenever both are
\* computable, and r = [-0.10, -0.05, 0.00, 0.05, 0.10] has VaR(r, 0.80) =
\* 0.06.
C25_VarMagnitudeMonotone ==
    riskOut.kind = "tail"
    => /\ \A c1, c2 \in ConfidenceLevels :
             (RLt(c1, c2) /\ riskOut.var[c1] # None /\ riskOut.var[c2] # None)
             => RLe(RAbs(riskOut.var[c1]), RAbs(riskOut.var[c2]))
       /\ riskIn.returns = Series(<<Norm(-10, 100), Norm(-5, 100), RZero,
                                     Norm(5, 100), Norm(10, 100)>>)
             => riskOut.var[<<4, 5>>] = Norm(6, 100)

\* C25 amended: for c1 < c2, VaR(r, c2) >= VaR(r, c1) as signed numbers
\* whenever both are computable (and so in magnitude whenever VaR(r, c1) >=
\* 0), where VaR is minus the linearly interpolated quantile at 1 - c: r =
\* [-0.10, -0.05, 0.00, 0.05, 0.10] has VaR(r, 0.80) = 0.06.
C25_VarMonotone ==
    riskOut.kind = "tail"
    => /\ \A c1, c2 \in ConfidenceLevels :
             (RLt(c1, c2) /\ riskOut.var[c1] # None /\ riskOut.var[c2] # None)
             => /\ RLe(riskOut.var[c1], riskOut.var[c2])
                /\ RLe(RZero, riskOut.var[c1])
                     => RLe(RAbs(riskOut.var[c1]), RAbs(riskOut.var[c2]))
       /\ riskIn.returns = Series(<<Norm(-10, 100), Norm(-5, 100), RZero,
                                     Norm(5, 100), Norm(10, 100)>>)
             => riskOut.var[<<4, 5>>] = Norm(6, 100)

\* C25 witness: the example series with VaR 0 at 1/2, 0.06 at 0.80 and 0.09
\* at 0.95
C25_Witness ==
    /\ riskOut.kind = "tail"
    /\ riskIn.returns = Series(<<Norm(-10, 100), Norm(-5, 100), RZero,
                                 Norm(5, 100), Norm(10, 100)>>)
    /\ riskOut.var[<<1, 2>>] = RZero
    /\ riskOut.var[<<4, 5>>] = Norm(3, 50)
    /\ riskOut.var[<<19, 20>>] = Norm(9, 100)

\* C11: a fetch_live_prices call with force_refresh=True asks the providers
\* for every symbol whatever the quote cache holds, and the call for the same
\* symbols without force_refresh that follows it at once is answered from the
\* cache with the result of the forced call.
C11_ForcedRefreshRepopulatesCache ==
    [][(nquotes' = nquotes + 1)
       => /\ lastQuote'.force
             => \A s \in SymbolsOf(lastQuote'.symbols) :
                   \E i \in 1..Len(lastQuote'.calls) :
                      lastQuote'.calls[i].symbol = s
          /\ (/\ nquotes > 0
              /\ lastQuote.force
              /\ ~lastQuote'.force
              /\ Sorted(lastQuote'.symbols) = Sorted(lastQuote.symbols)
              /\ now = lastQuote.time)
             => (/\ lastQuote'.cached
                 /\ lastQuote'.calls = <<>>
                 /\ lastQuote'.ret = lastQuote.ret)]_vars

\* C12: once Alpha Vantage has reported its daily quota exhausted during a
\* fetch_live_prices call, no later provider call of that same call goes to
\* Alpha Vantage: the remaining symbols are asked of yfinance only.
C12_NoPrimaryAfterQuotaExhausted ==
    \A i, j \in 1..Len(lastQuote.calls) :
        (/\ i < j
         /\ lastQuote.calls[i].provider = "primary"
         /\ lastQuote.calls[i].outcome = "quota")
        => lastQuote.calls[j].provider = "secondary"

\* C13: a fetch_stock_data request naming the same tickers as a live
\* ephemeral entry (stored less than 300 seconds ago for the same period and
\* interval) but in another order is served from that entry: it makes no
\* provider call and returns the stored table.
C13_EphemeralKeyIgnoresTickerOrder ==
    [][(nfetch' = nfetch + 1)
       => \A key \in DOMAIN memCache :
             (/\ key[1] # lastFetch'.tickers
              /\ SymbolsOf(key[1]) = SymbolsOf(lastFetch'.tickers)
              /\ key[2] = lastFetch'.period
              /\ now - memCache[key].time < cache_timeout)
             => (/\ \A i \in 1..Len(lastFetch'.trace) :
                       lastFetch'.trace[i].source \notin {"primary", "secondary"}
                 /\ lastFetch'.ret = memCache[key].data)]_vars

====
